---- MODULE Spec2Model ----
(***************************************************************************)
(* Reconciliation rule engine of conciliacontag: the rule cascade          *)
(* (debit / credit / history / complement), the rule key and hash, the     *)
(* saved-rule table with its upsert, the cached rule load and the          *)
(* reconciliation run that replays saved rules; the build of the           *)
(* reconciliation dataset from statement and Francesinha rows, the         *)
(* interest rows of the Francesinha and the transaction of a save; the     *)
(* classification of payers, the review of a built dataset (list of PJ     *)
(* clients, data editor, batch edit), the confirmation of an overwrite of  *)
(* stored statements and the lock of the editor.                           *)
(*                                                                         *)
(* Text is modelled character by character: a Python str is a sequence of  *)
(* one-character strings, so that strip, upper, lower, split, slicing,     *)
(* substring tests and the regular expressions are computed as the code    *)
(* computes them.  Account and history codes, which the code only compares *)
(* with '' and copies, are atomic strings.                                 *)
(***************************************************************************)
EXTENDS Integers, Sequences, FiniteSets, TLC

VARIABLES
    \* --- rule cascade on one OFX row -------------------------------------
    row,            \* the normalized OFX row {tipo, memo, payee}
    codes,          \* what the cascade returned for row
    prevCodes,      \* what it returned for the row before its case was changed
    phase,          \* "input" | "done" | "recased"
    \* --- rule key on one ledger entry ------------------------------------
    kEntry,         \* a ledger entry
    kKey,           \* create_rule_key(kEntry)
    kPrevKey,       \* the key before an operator edit
    kPhase,         \* "input" | "keyed" | "edited"
    \* --- apply_saved_rules on one dataset and one rule dict --------------
    aDf,            \* the dataset given to apply_saved_rules
    aRules,         \* the dict of saved rules given to it
    aOut,           \* what it returned
    aOut2,          \* what it returned when given aOut again
    aPhase,         \* "input" | "applied" | "again"
    \* --- rule persistence and replay -------------------------------------
    regras,         \* table regras_conciliacao: its set of rows
    cache,          \* st.cache_data of carregar_regras_conciliacao, per empresa
    empresa_ativa,  \* st.session_state['empresa_ativa'] (its id; 0 = none)
    arquivos,       \* the processed inputs in the session (an index, 0 = none)
    df_conciliacao, \* st.session_state['df_conciliacao']
    base,           \* the inputs df_conciliacao was built from
    edicoes,        \* how many cells the operator has edited in df_conciliacao
    salvamentos,    \* how many saves have committed
    ultimo,         \* which operation ran last, and which application built
                    \* df_conciliacao
    \* --- building the reconciliation dataset from one pair of inputs -----
    bOfx,           \* df_extratos_final: the OFX rows
    bFran,          \* df_francesinhas_final: the Francesinha rows
    bRes,           \* what the build did: raised, the dataset, the date totals
    bPhase,         \* "input" | "refatorado" | "monolito"
    \* --- processing of the Francesinha files in a session ----------------
    planilhas,      \* the rows each Francesinha file holds
    df_francesinhas_final,  \* st.session_state['df_francesinhas_final']
    linhas_mora_count,      \* st.session_state['linhas_mora_count']
    processamentos, \* how often the files have been processed
    \* --- the transaction of a reconciliation save ------------------------
    db,             \* tables lancamentos_conciliacao, conciliacoes, regras_conciliacao
    sDf,            \* the dataset to save
    sEmpresa,       \* the company it is saved for
    sRes,           \* the step that failed, what was returned and shown
    \* --- the entity classifier ------------------------------------------
    nlp,            \* the spaCy model: whether it was loaded, and doc.ents by name
    cNames,         \* the list given to classify_batch
    cBatch,         \* what classify_batch returned
    cEntity,        \* the last name given to classify_entity and what it returned
    \* --- the review of a built dataset ----------------------------------
    rApp,           \* "monolito" | "gradio"
    rDf,            \* st.session_state['df_conciliacao']
    rBase,          \* the dataset as it was built
    rLista,         \* the lines of the last list of PJ clients applied
    rOp,            \* the last action of the operator
    editing_enabled,\* st.session_state.editing_enabled
    rPassos,        \* the number of actions so far
    \* --- the confirmation of an overwrite of stored statements ----------
    kApp,           \* "refatorado" | "monolito"
    transacoes_ofx, \* the rows of table transacoes_ofx of the active company
    kImportacoes,   \* the last id of table importacoes
    df_extratos_final,        \* the files of st.session_state['df_extratos_final']
    ofx_overwrite_confirmed,  \* st.session_state.ofx_overwrite_confirmed
    kConfirmado,    \* history: the files of the dataset the user confirmed for
    kOp,            \* the last action on the statements
    \* --- the lock of the reconciliation editor (app2) -------------------
    lArquivos,      \* the processed inputs (an index of Catalogo, 0 = none)
    lDf,            \* st.session_state.df_conciliacao (<<>> = None)
    editor_locked,  \* st.session_state.editor_locked
    editing_mode,   \* st.session_state.editing_mode
    lEdicoes,       \* how many edits have been applied
    lOp             \* the last action of the user

cascadeVars == <<row, codes, prevCodes, phase>>
keyVars     == <<kEntry, kKey, kPrevKey, kPhase>>
applyVars   == <<aDf, aRules, aOut, aOut2, aPhase>>
ruleVars    == <<regras, cache, empresa_ativa, arquivos, df_conciliacao, base,
                 edicoes, salvamentos, ultimo>>
buildVars   == <<bOfx, bFran, bRes, bPhase>>
moraVars    == <<planilhas, df_francesinhas_final, linhas_mora_count, processamentos>>
dbVars      == <<db, sDf, sEmpresa, sRes>>
classVars   == <<nlp, cNames, cBatch, cEntity>>
reviewVars  == <<rApp, rDf, rBase, rLista, rOp, editing_enabled, rPassos>>
confirmVars == <<kApp, transacoes_ofx, kImportacoes, df_extratos_final,
                 ofx_overwrite_confirmed, kConfirmado, kOp>>
lockVars    == <<lArquivos, lDf, editor_locked, editing_mode, lEdicoes, lOp>>
uiVars      == <<classVars, reviewVars, confirmVars, lockVars>>
vars        == <<row, codes, prevCodes, phase, kEntry, kKey, kPrevKey, kPhase,
                 aDf, aRules, aOut, aOut2, aPhase,
                 regras, cache, empresa_ativa, arquivos, df_conciliacao, base,
                 edicoes, salvamentos, ultimo,
                 bOfx, bFran, bRes, bPhase,
                 planilhas, df_francesinhas_final, linhas_mora_count, processamentos,
                 db, sDf, sEmpresa, sRes,
                 nlp, cNames, cBatch, cEntity,
                 rApp, rDf, rBase, rLista, rOp, editing_enabled, rPassos,
                 kApp, transacoes_ofx, kImportacoes, df_extratos_final,
                 ofx_overwrite_confirmed, kConfirmado, kOp,
                 lArquivos, lDf, editor_locked, editing_mode, lEdicoes, lOp>>

-----------------------------------------------------------------------------
(* Python str operations                                                   *)

LowerChars == <<"a","b","c","d","e","f","g","h","i","j","k","l","m","n","o",
                "p","q","r","s","t","u","v","w","x","y","z","ç","é","ã","á">>
UpperChars == <<"A","B","C","D","E","F","G","H","I","J","K","L","M","N","O",
                "P","Q","R","S","T","U","V","W","X","Y","Z","Ç","É","Ã","Á">>
Digits == {"0","1","2","3","4","5","6","7","8","9"}
Punct  == {" ","|","-",".","/","*","\\",",","_"}
Range(s) == {s[i] : i \in 1..Len(s)}
AnyChar == Range(LowerChars) \cup Range(UpperChars) \cup Digits \cup Punct

UpperOf == [c \in AnyChar |->
              IF c \in Range(LowerChars)
                THEN UpperChars[CHOOSE i \in 1..Len(LowerChars) : LowerChars[i] = c]
                ELSE c]
LowerOf == [c \in AnyChar |->
              IF c \in Range(UpperChars)
                THEN LowerChars[CHOOSE i \in 1..Len(UpperChars) : UpperChars[i] = c]
                ELSE c]

\* str.upper() and str.lower()
Upper(s) == [i \in 1..Len(s) |-> UpperOf[s[i]]]
Lower(s) == [i \in 1..Len(s) |-> LowerOf[s[i]]]

\* str.strip(): whitespace removed at both ends
RECURSIVE LStrip(_)
LStrip(s) == IF s # <<>> /\ Head(s) = " " THEN LStrip(Tail(s)) ELSE s
RECURSIVE RStrip(_)
RStrip(s) == IF s # <<>> /\ s[Len(s)] = " " THEN RStrip(SubSeq(s, 1, Len(s) - 1)) ELSE s
Strip(s) == RStrip(LStrip(s))

\* sub in s
Contains(s, sub) ==
    \E i \in 0..(Len(s) - Len(sub)) : SubSeq(s, i + 1, i + Len(sub)) = sub

\* s[:n]
Prefix(s, n) == SubSeq(s, 1, IF Len(s) < n THEN Len(s) ELSE n)

\* s.split('|'): the segments between the pipes, at least one
RECURSIVE SplitPipe(_)
SplitPipe(s) ==
    IF \A i \in 1..Len(s) : s[i] # "|"
      THEN <<s>>
      ELSE LET p == CHOOSE i \in 1..Len(s) :
                        s[i] = "|" /\ \A j \in 1..(i - 1) : s[j] # "|"
           IN  <<SubSeq(s, 1, p - 1)>> \o SplitPipe(SubSeq(s, p + 1, Len(s)))

\* re.search(pattern, s) for a pattern that is a fixed run of character
\* classes: some window of s matches class by class
ReSearch(pat, s) ==
    \E i \in 0..(Len(s) - Len(pat)) : \A j \in 1..Len(pat) : s[i + j] \in pat[j]

Lit(c) == {c}

-----------------------------------------------------------------------------
(* Keywords, markers and patterns of the cascade                           *)

KW_CR_COMPRAS == <<"C","R"," ","C","O","M","P","R","A","S">>
KW_TARIFA_COBRANCA == <<"T","A","R","I","F","A"," ","C","O","B","R","A","N","Ç","A">>
KW_TARIFA_ENVIO_PIX == <<"T","A","R","I","F","A"," ","E","N","V","I","O"," ","P","I","X">>
KW_DEBITO_PACOTE_SERVICOS == <<"D","É","B","I","T","O"," ","P","A","C","O","T","E"," ","S","E","R","V","I","Ç","O","S">>
KW_DEB_PARCELAS == <<"D","E","B",".","P","A","R","C","E","L","A","S"," ","S","U","B","S","C",".","/","I","N","T","E","G","R",".">>
KW_UNIMED == <<"U","N","I","M","E","D">>
KW_CEDULA_DE_PRESENCA == <<"C","É","D","U","L","A"," ","D","E"," ","P","R","E","S","E","N","Ç","A">>
KW_SALARIO == <<"S","A","L","A","R","I","O">>
KW_AGUA_E_ESGOTO == <<"A","G","U","A"," ","E"," ","E","S","G","O","T","O">>
TIPO_CREDIT == <<"C","R","E","D","I","T">>
TIPO_DEBIT == <<"D","E","B","I","T">>
PREFIX_C == <<"C"," ","-"," ">>
PREFIX_D == <<"D"," ","-"," ">>
SEP == <<" ","|"," ">>

\* r'\*\*\*\.\d{3}\.\d{3}-\*\*'
RE_MASKED_TAX_ID ==
    <<Lit("*"), Lit("*"), Lit("*"), Lit("."), Digits, Digits, Digits, Lit("."),
      Digits, Digits, Digits, Lit("-"), Lit("*"), Lit("*")>>
\* r'\d{2}\.\d{3}\.\d{3} \d{4}-\d{2}'
RE_FORMATTED_TAX_ID ==
    <<Digits, Digits, Lit("."), Digits, Digits, Digits, Lit("."), Digits, Digits,
      Digits, Lit(" "), Digits, Digits, Digits, Digits, Lit("-"), Digits, Digits>>
\* r'\\*\\*\\*\\.\\d{3}\\.\\d{3}-\\*\\*' : in a raw string '\\' is a literal
\* backslash, so '\\*' is "any number of backslashes" (it matches the empty
\* text at both ends of a search), '\\.' is a backslash and any character and
\* '\\d{3}' is a backslash and the letters ddd
RE_HISTORY_MASKED ==
    <<Lit("\\"), AnyChar, Lit("\\"), Lit("d"), Lit("d"), Lit("d"),
      Lit("\\"), AnyChar, Lit("\\"), Lit("d"), Lit("d"), Lit("d"), Lit("-")>>
\* r'\\d{2}\\.\\d{3}\\.\\d{3} \\d{4}-\\d{2}'
RE_HISTORY_FORMATTED ==
    <<Lit("\\"), Lit("d"), Lit("d"), Lit("\\"), AnyChar,
      Lit("\\"), Lit("d"), Lit("d"), Lit("d"), Lit("\\"), AnyChar,
      Lit("\\"), Lit("d"), Lit("d"), Lit("d"), Lit(" "),
      Lit("\\"), Lit("d"), Lit("d"), Lit("d"), Lit("d"), Lit("-"),
      Lit("\\"), Lit("d"), Lit("d")>>

-----------------------------------------------------------------------------
(* The rule cascade                                                        *)

\* str(row.get('tipo', '')).strip().upper()
TransactionType(r) == Upper(Strip(r.tipo))

\* calculate_credit with the test of the transaction type left out
CalculateCreditNoTypeGuard(r) ==
    LET payee == r.payee
        memo  == r.memo
    IN  IF Contains(memo, KW_CR_COMPRAS) THEN "15254"
        ELSE IF ReSearch(RE_MASKED_TAX_ID, payee) THEN "10550"
        ELSE IF ReSearch(RE_FORMATTED_TAX_ID, payee) THEN "13709"
        ELSE ""
\* ReconciliationRules.calculate_credit: memo and payee are compared as given
CalculateCredit(r) ==
    LET transaction_type == TransactionType(r)
        payee == r.payee
        memo  == r.memo
    IN  IF transaction_type = TIPO_CREDIT
          THEN IF Contains(memo, KW_CR_COMPRAS) THEN "15254"
               ELSE IF ReSearch(RE_MASKED_TAX_ID, payee) THEN "10550"
               ELSE IF ReSearch(RE_FORMATTED_TAX_ID, payee) THEN "13709"
               ELSE ""
          ELSE ""

\* ReconciliationRules.calculate_debit
CalculateDebit(r) ==
    LET transaction_type == TransactionType(r)
        memo  == Upper(Strip(r.memo))
        payee == Upper(Strip(r.payee))
    IN  IF transaction_type = TIPO_DEBIT
          THEN IF Contains(memo, KW_TARIFA_COBRANCA) THEN "52877"
               ELSE IF Contains(memo, KW_TARIFA_ENVIO_PIX) THEN "52878"
               ELSE IF Contains(memo, KW_DEBITO_PACOTE_SERVICOS) THEN "52914"
               ELSE IF Contains(memo, KW_DEB_PARCELAS) THEN "84618"
               ELSE IF Contains(payee, KW_UNIMED) THEN "23921"
               ELSE IF Contains(payee, KW_CEDULA_DE_PRESENCA) THEN "26186"
               ELSE IF Contains(memo, KW_SALARIO) THEN "20817"
               ELSE IF Contains(memo, KW_AGUA_E_ESGOTO) THEN "52197"
               ELSE ""
          ELSE ""

\* RegrasNegocio.calcular_debito (app2.py): the memo terms of the dict
\* regras_debito in insertion order, and only then the two payee terms
CalcularDebitoApp2(r) ==
    LET tipo  == TransactionType(r)
        memo  == Upper(Strip(r.memo))
        payee == Upper(Strip(r.payee))
    IN  IF tipo # TIPO_DEBIT THEN ""
        ELSE IF Contains(memo, KW_TARIFA_COBRANCA) THEN "52877"
        ELSE IF Contains(memo, KW_TARIFA_ENVIO_PIX) THEN "52878"
        ELSE IF Contains(memo, KW_DEBITO_PACOTE_SERVICOS) THEN "52914"
        ELSE IF Contains(memo, KW_DEB_PARCELAS) THEN "84618"
        ELSE IF Contains(memo, KW_SALARIO) THEN "20817"
        ELSE IF Contains(memo, KW_AGUA_E_ESGOTO) THEN "52197"
        ELSE IF Contains(payee, KW_UNIMED) THEN "23921"
        ELSE IF Contains(payee, KW_CEDULA_DE_PRESENCA) THEN "26186"
        ELSE ""

\* ReconciliationRules.calculate_history
CalculateHistory(r) ==
    LET transaction_type == TransactionType(r)
        memo        == Upper(Strip(r.memo))
        payee_raw   == r.payee
        payee_upper == Upper(Strip(payee_raw))
    IN  IF transaction_type = TIPO_CREDIT
          THEN IF Contains(memo, KW_CR_COMPRAS) THEN "601"
               ELSE IF Contains(memo, KW_TARIFA_ENVIO_PIX) THEN "150"
               ELSE IF ReSearch(RE_HISTORY_MASKED, payee_raw) THEN "78"
               ELSE IF ReSearch(RE_HISTORY_FORMATTED, payee_raw) THEN "78"
               ELSE ""
        ELSE IF transaction_type = TIPO_DEBIT
          THEN IF Contains(memo, KW_TARIFA_COBRANCA) THEN "8"
               ELSE IF Contains(memo, KW_TARIFA_ENVIO_PIX) THEN "150"
               ELSE IF Contains(memo, KW_DEBITO_PACOTE_SERVICOS) THEN "111"
               ELSE IF Contains(memo, KW_DEB_PARCELAS) THEN "37"
               ELSE IF Contains(payee_upper, KW_UNIMED) THEN "88"
               ELSE IF Contains(payee_upper, KW_CEDULA_DE_PRESENCA) THEN "58"
               ELSE IF Contains(memo, KW_SALARIO) THEN "88"
               ELSE IF Contains(memo, KW_AGUA_E_ESGOTO) THEN "88"
               ELSE ""
        ELSE ""

\* ReconciliationRules.create_complement_with_prefix
CreateComplementWithPrefix(r) ==
    LET transaction_type == TransactionType(r)
        prefix == IF transaction_type = TIPO_CREDIT THEN PREFIX_C
                  ELSE IF transaction_type = TIPO_DEBIT THEN PREFIX_D
                  ELSE <<>>
        memo_str  == r.memo
        payee_str == r.payee
        base_complement == IF payee_str # <<>> THEN memo_str \o SEP \o payee_str
                           ELSE memo_str
    IN  prefix \o base_complement

\* What the cascade returns for one row, per implementation
Cascade(r) ==
    [ debit      |-> CalculateDebit(r),
      credit     |-> CalculateCredit(r),
      history    |-> CalculateHistory(r),
      complement |-> CreateComplementWithPrefix(r),
      debit_app2 |-> CalcularDebitoApp2(r) ]

NoCodes == [debit |-> "", credit |-> "", history |-> "", complement |-> <<>>,
            debit_app2 |-> ""]

-----------------------------------------------------------------------------
(* Specification SpecCascade: the cascade applied to one OFX row, and to   *)
(* the same row with the letter case of memo and payee changed             *)

Tipos ==
    { <<"D","E","B","I","T">>,
      <<"C","R","E","D","I","T">>,
      <<" ","c","r","e","d","i","t">>,
      <<"O","T","H","E","R">> }
Memos ==
    { <<>>,
      <<"P","I","X"," ","R","E","C","E","B","I","D","O">>,
      <<"C","R"," ","C","O","M","P","R","A","S">>,
      <<"c","r"," ","c","o","m","p","r","a","s">>,
      <<"T","A","R","I","F","A"," ","C","O","B","R","A","N","Ç","A">>,
      <<"t","a","r","i","f","a"," ","c","o","b","r","a","n","ç","a">>,
      <<"T","A","R","I","F","A"," ","E","N","V","I","O"," ","P","I","X">>,
      <<"D","É","B","I","T","O"," ","P","A","C","O","T","E"," ","S","E","R","V","I","Ç","O","S">>,
      <<"D","E","B",".","P","A","R","C","E","L","A","S"," ","S","U","B","S","C",".","/","I","N","T","E","G","R",".">>,
      <<"S","A","L","A","R","I","O">>,
      <<"S","a","l","a","r","i","o">>,
      <<"A","G","U","A"," ","E"," ","E","S","G","O","T","O">>,
      <<"T","A","R","I","F","A"," ","E","N","V","I","O"," ","P","I","X"," ","S","A","L","A","R","I","O">>,
      <<"A","G","U","A"," ","E"," ","E","S","G","O","T","O"," ","S","A","L","A","R","I","O">> }
Payees ==
    { <<>>,
      <<"J","O","A","O"," ","S","I","L","V","A">>,
      <<"U","N","I","M","E","D">>,
      <<"U","n","i","m","e","d">>,
      <<"C","É","D","U","L","A"," ","D","E"," ","P","R","E","S","E","N","Ç","A">>,
      <<"*","*","*",".","1","2","3",".","4","5","6","-","*","*">>,
      <<"1","2",".","3","4","5",".","6","7","8"," ","0","0","0","1","-","9","0">>,
      <<"*","*","*",".","1","2","3",".","4","5","6","-","*","*"," ","1","2",".","3","4","5",".","6","7","8"," ","0","0","0","1","-","9","0">>,
      <<"U","N","I","M","E","D"," ","C","É","D","U","L","A"," ","D","E"," ","P","R","E","S","E","N","Ç","A">> }

Rows == [tipo : Tipos, memo : Memos, payee : Payees]

NoEntry == [selecionar |-> FALSE, debito |-> "", credito |-> "", historico |-> "",
            data |-> <<>>, valor |-> <<>>, complemento |-> <<>>, origem |-> <<>>]

CascadeIdle ==
    /\ row = [tipo |-> <<>>, memo |-> <<>>, payee |-> <<>>]
    /\ codes = NoCodes /\ prevCodes = NoCodes /\ phase = "idle"
KeyIdle ==
    /\ kEntry = NoEntry /\ kKey = <<>> /\ kPrevKey = <<>> /\ kPhase = "idle"

InitCascade ==
    /\ row \in Rows
    /\ codes = NoCodes /\ prevCodes = NoCodes /\ phase = "input"

\* processed_ofx.apply(calculate_debit / calculate_credit / calculate_history /
\* create_complement_with_prefix, axis=1) on one row
Calculate ==
    /\ phase = "input"
    /\ codes' = Cascade(row)
    /\ phase' = "done"
    /\ UNCHANGED <<row, prevCodes, keyVars, applyVars, ruleVars,
                 buildVars, moraVars, dbVars, uiVars>>

\* The same row arrives with memo and payee in another letter case
Recase ==
    /\ phase = "done"
    /\ \E m \in Memos, p \in Payees :
          /\ Upper(m) = Upper(row.memo) /\ Upper(p) = Upper(row.payee)
          /\ <<m, p>> # <<row.memo, row.payee>>
          /\ row' = [row EXCEPT !.memo = m, !.payee = p]
          /\ codes' = Cascade([row EXCEPT !.memo = m, !.payee = p])
    /\ prevCodes' = codes
    /\ phase' = "recased"
    /\ UNCHANGED <<keyVars, applyVars, ruleVars,
                 buildVars, moraVars, dbVars, uiVars>>

-----------------------------------------------------------------------------
(* The rule key and its hash                                               *)

KEY_JUROS_DE_MORA == <<"j","u","r","o","s"," ","d","e"," ","m","o","r","a">>
KEY_FRANCESINHA == <<"f","r","a","n","c","e","s","i","n","h","a">>

\* create_rule_key with the two segments of the default rule joined as they
\* are, without strip()
CreateRuleKeyNoStrip(e) ==
    LET complement == e.complemento
        origin     == Lower(e.origem)
        parts      == SplitPipe(complement)
    IN  IF Contains(origin, KEY_JUROS_DE_MORA) THEN Strip(parts[1])
        ELSE IF Contains(origin, KEY_FRANCESINHA) THEN Strip(parts[1])
        ELSE IF Len(parts) > 2 THEN parts[1] \o SEP \o parts[2]
        ELSE Strip(complement)
\* RuleManager.create_rule_key (criar_chave_regra, _criar_chave_regra)
CreateRuleKey(e) ==
    LET complement == e.complemento
        origin     == Lower(e.origem)
        parts      == SplitPipe(complement)
    IN  IF Contains(origin, KEY_JUROS_DE_MORA) THEN Strip(SplitPipe(complement)[1])
        ELSE IF Contains(origin, KEY_FRANCESINHA) THEN Strip(SplitPipe(complement)[1])
        ELSE IF Len(parts) > 2 THEN Strip(parts[1]) \o SEP \o Strip(parts[2])
        ELSE Strip(complement)

\* RuleManager.generate_hash (gerar_hash): None for an empty text, else the
\* SHA-256 digest, which is taken to be collision free: the digest of a text
\* is the text under a tag, and None is the empty digest
None == <<>>
GenerateHash(text) == IF text = <<>> THEN None ELSE <<"sha256">> \o text

-----------------------------------------------------------------------------
(* Specification SpecKey: the key of one ledger entry, before and after a  *)
(* operator changes its debit, credit or history                           *)

Complementos ==
    { <<"D"," ","-"," ">>,
      <<"C"," ","-"," ","C","R"," ","C","O","M","P","R","A","S"," ">>,
      <<"D"," ","-"," ","T","A","R","I","F","A"," ","C","O","B","R","A","N","Ç","A">>,
      <<"D"," ","-"," ","P","I","X"," ","|"," ","J","O","A","O">>,
      <<"C"," ","-"," ","P","I","X"," "," ","|"," "," ","J","O","A","O"," ">>,
      <<"C"," ","-"," ","A","C","M","E"," ","|"," ","2","5","0",",","0","0"," ","|"," ","X"," ","|"," ","0","5","/","0","1","/","2","0","2","4">>,
      <<"C"," ","-"," ","A","C","M","E"," ","|"," ","N","/","A"," ","|"," ","X"," ","|"," ","0","5","/","0","1","/","2","0","2","4"," ","|"," ","J","u","r","o","s"," ","d","e"," ","M","o","r","a">>,
      <<"C"," ","-"," ","A","|","B","|","C">>,
      <<"D"," ","-"," ","A","|","B"," "," ","|"," ","J","O","A","O">>,
      <<"C"," ","-"," ","A","C","M","E"," "," ","|"," ","9",",","0","0","|","X">> }
Origens ==
    { <<>>,
      <<"e","x","t","r","a","t","o",".","o","f","x">>,
      <<"J","u","r","o","s"," ","d","e"," ","M","o","r","a">>,
      <<"f","r","a","n","c","e","s","i","n","h","a","_","j","a","n">>,
      <<"F","R","A","N","C","E","S","I","N","H","A"," ","0","2">>,
      <<"c","o","b","r","a","n","c","a","_","f","e","v">> }
ReviewCodes == {"", "10550", "13709"}

InitKey ==
    /\ kEntry \in [selecionar : {FALSE}, debito : {"", "52877"}, credito : {"", "10550"},
                   historico : {"", "78"}, data : {<<>>}, valor : {<<>>},
                   complemento : Complementos, origem : Origens]
    /\ kKey = <<>> /\ kPrevKey = <<>> /\ kPhase = "input"

\* df.apply(create_rule_key, axis=1) on one entry
MakeKey ==
    /\ kPhase = "input"
    /\ kKey' = CreateRuleKey(kEntry)
    /\ kPhase' = "keyed"
    /\ UNCHANGED <<kEntry, kPrevKey, cascadeVars, applyVars, ruleVars,
                 buildVars, moraVars, dbVars, uiVars>>

\* An operator edits débito, crédito and histórico, and the key is taken again
EditAndRekey ==
    /\ kPhase = "keyed"
    /\ \E d \in ReviewCodes, c \in ReviewCodes, h \in ReviewCodes :
          /\ <<d, c, h>> # <<kEntry.debito, kEntry.credito, kEntry.historico>>
          /\ kEntry' = [kEntry EXCEPT !.debito = d, !.credito = c, !.historico = h]
          /\ kKey' = CreateRuleKey([kEntry EXCEPT !.debito = d, !.credito = c,
                                                  !.historico = h])
    /\ kPrevKey' = kKey
    /\ kPhase' = "edited"
    /\ UNCHANGED <<cascadeVars, applyVars, ruleVars,
                 buildVars, moraVars, dbVars, uiVars>>

-----------------------------------------------------------------------------
(* Dates and amounts.  An amount is a whole number of centavos; a date is  *)
(* a day, month and year, with an hour of the day on OFX rows.             *)

DigitSeq == <<"0","1","2","3","4","5","6","7","8","9">>
DigitChar(n) == DigitSeq[n + 1]
DigitVal(c) == (CHOOSE i \in 1..10 : DigitSeq[i] = c) - 1
RECURSIVE DigitsOf(_)
DigitsOf(n) == IF n < 10 THEN <<DigitChar(n)>>
               ELSE DigitsOf(n \div 10) \o <<DigitChar(n % 10)>>
Pad2(n) == <<DigitChar((n \div 10) % 10), DigitChar(n % 10)>>
Abs(x) == IF x < 0 THEN -x ELSE x

\* f"{x:.2f}".replace('.', ',')
Format2f(x) ==
    (IF x < 0 THEN <<"-">> ELSE <<>>)
        \o DigitsOf(Abs(x) \div 100) \o <<",">> \o Pad2(Abs(x) % 100)

\* strftime('%d/%m/%Y')
FormatData(d) == Pad2(d.dia) \o <<"/">> \o Pad2(d.mes) \o <<"/">> \o DigitsOf(d.ano)

\* pd.to_datetime(s, format='%d/%m/%Y', errors='coerce'): NaT when s is not
\* a date in that format
NaT == [dia |-> 0, mes |-> 0, ano |-> 0]
ToDatetime(s) ==
    IF /\ Len(s) = 10
       /\ s[3] = "/" /\ s[6] = "/"
       /\ \A i \in {1, 2, 4, 5, 7, 8, 9, 10} : s[i] \in Digits
      THEN LET dia == 10 * DigitVal(s[1]) + DigitVal(s[2])
               mes == 10 * DigitVal(s[4]) + DigitVal(s[5])
               ano == 1000 * DigitVal(s[7]) + 100 * DigitVal(s[8])
                        + 10 * DigitVal(s[9]) + DigitVal(s[10])
           IN  IF dia \in 1..31 /\ mes \in 1..12 THEN [dia |-> dia, mes |-> mes, ano |-> ano]
               ELSE NaT
      ELSE NaT
\* .dt.normalize(): the time of day is dropped
Normalize(d) == [dia |-> d.dia, mes |-> d.mes, ano |-> d.ano]

-----------------------------------------------------------------------------
(* Building the reconciliation dataset                                     *)

MARKER_LIQUIDACAO == <<"C","R","É","D",".","L","I","Q","U","I","D","A","Ç","Ã","O"," ","C","O","B","R","A","N","Ç","A">>
JUROS_DE_MORA == <<"J","u","r","o","s"," ","d","e"," ","M","o","r","a">>
NA == <<"N","/","A">>
SACADO_MAX == 40

\* "Gerar Francesinha Completa" (create_interest_rows, _adicionar_linhas_mora):
\* one more row per row with Vlr_Mora > 0, after the rows read from the files.
\* CELULA_VAZIA is the '' that stands in a column of amounts where the cell of
\* the sheet was empty
CELULA_VAZIA == -1
VlrMora(r) == IF r.Vlr_Mora # CELULA_VAZIA THEN r.Vlr_Mora ELSE 0
\* A variant that keeps the discount of the record
LinhaMoraKeepsDesc(r) == [r EXCEPT !.Valor_RS = VlrMora(r), !.Vlr_Cobrado = VlrMora(r),
                                   !.Vlr_Mora = 0, !.Vlr_Outros_Acresc = 0,
                                   !.Arquivo_Origem = JUROS_DE_MORA]
\* new_row of create_interest_rows
LinhaMora(r) == [r EXCEPT !.Valor_RS = VlrMora(r), !.Vlr_Cobrado = VlrMora(r),
                          !.Vlr_Mora = 0, !.Vlr_Desc = 0, !.Vlr_Outros_Acresc = 0,
                          !.Arquivo_Origem = JUROS_DE_MORA]
\* A variant that derives a row from every record
GerarFrancesinhaCompletaParaTodos(xls) ==
    xls \o [i \in 1..Len(xls) |-> LinhaMora(xls[i])]
\* combined_df of create_interest_rows
GerarFrancesinhaCompleta(xls) ==
    LET TemMora(r) == VlrMora(r) > 0
        df_sem_mora == xls
        com_mora    == SelectSeq(df_sem_mora, TemMora)
    IN  df_sem_mora \o [i \in 1..Len(com_mora) |-> LinhaMora(com_mora[i])]

\* df_ofx[df_ofx['memo'] == 'CRÉD.LIQUIDAÇÃO COBRANÇA'] and its complement
IsLiquidacao(r) == r.memo = MARKER_LIQUIDACAO
Liquidacoes(df_ofx) == SelectSeq(df_ofx, IsLiquidacao)
ProcessedOfxAll(df_ofx) == df_ofx
ProcessedOfx(df_ofx) == LET Outra(r) == ~IsLiquidacao(r) IN SelectSeq(df_ofx, Outra)

\* ReconciliationProcessor.process_ofx_reconciliation: one entry per row
OfxEntry(r) ==
    [ selecionar  |-> FALSE,
      debito      |-> CalculateDebit(r),
      credito     |-> CalculateCredit(r),
      historico   |-> CalculateHistory(r),
      data        |-> FormatData(r.data),
      valor       |-> Format2f(Abs(r.valor)),
      complemento |-> CreateComplementWithPrefix(r),
      origem      |-> r.arquivo_origem ]
ProcessOfxReconciliation(df_ofx) ==
    LET processed_ofx == ProcessedOfx(df_ofx)
    IN  [i \in 1..Len(processed_ofx) |-> OfxEntry(processed_ofx[i])]

\* liquidations_ofx.groupby('data_dt')['valor'].sum(): the settlement rows
\* are taken one by one and each is added to the total of its data_dt, the
\* date of the row without its time of day
RECURSIVE GroupBySumByTimestamp(_)
GroupBySumByTimestamp(liquidations) ==
    IF liquidations = <<>> THEN <<>>
    ELSE LET n       == Len(liquidations)
             agg     == GroupBySumByTimestamp(SubSeq(liquidations, 1, n - 1))
             data_dt == liquidations[n].data
         IN  IF data_dt \in DOMAIN agg
               THEN [agg EXCEPT ![data_dt] = @ + liquidations[n].valor]
               ELSE agg @@ (data_dt :> liquidations[n].valor)
RECURSIVE GroupBySum(_)
GroupBySum(liquidations) ==
    IF liquidations = <<>> THEN <<>>
    ELSE LET n       == Len(liquidations)
             agg     == GroupBySum(SubSeq(liquidations, 1, n - 1))
             data_dt == Normalize(liquidations[n].data)
         IN  IF data_dt \in DOMAIN agg
               THEN [agg EXCEPT ![data_dt] = @ + liquidations[n].valor]
               ELSE agg @@ (data_dt :> liquidations[n].valor)

\* pd.merge(df_francesinha, liquidations_agg, how='left') on the settlement
\* date: the column valor_liquidacao_total of a row, <<x>> for the number x
\* and NoTotal (NaN) where no group has the date of the row
NoTotal == <<>>
MergeLeftFillZero(liquidations_agg, data_liquid_dt) ==
    IF data_liquid_dt \in DOMAIN liquidations_agg
      THEN <<liquidations_agg[data_liquid_dt]>>
      ELSE <<0>>
MergeLeft(liquidations_agg, data_liquid_dt) ==
    IF data_liquid_dt \in DOMAIN liquidations_agg
      THEN <<liquidations_agg[data_liquid_dt]>>
      ELSE NoTotal

\* ReconciliationProcessor._create_francesinha_complement.  total is the
\* merged column valor_liquidacao_total: <<x>> for the number x, NoTotal (a
\* NaN) where the merge found no group
CreateFrancesinhaComplement(r, total) ==
    LET formatted_value == IF total = NoTotal THEN NA ELSE Format2f(total[1])
        limited_sacado  == Strip(Prefix(r.Sacado, SACADO_MAX))
        base_complement == PREFIX_C \o limited_sacado \o SEP \o formatted_value
                             \o SEP \o MARKER_LIQUIDACAO \o SEP \o r.Dt_Liquid
    IN  IF r.Arquivo_Origem = JUROS_DE_MORA
          THEN base_complement \o SEP \o JUROS_DE_MORA
          ELSE base_complement

\* ReconciliationProcessor.process_francesinha_reconciliation: one entry per
\* row
FrancesinhaEntry(r, liquidations) ==
    LET data_liquid_dt == ToDatetime(r.Dt_Liquid)
        total == MergeLeft(GroupBySum(liquidations), data_liquid_dt)
    IN  [ selecionar  |-> FALSE,
          debito      |-> "",
          credito     |-> IF r.Arquivo_Origem = JUROS_DE_MORA THEN "31103" ELSE "",
          historico   |-> IF r.Arquivo_Origem = JUROS_DE_MORA THEN "20" ELSE "",
          data        |-> r.Dt_Liquid,
          valor       |-> Format2f(r.Valor_RS),
          complemento |-> CreateFrancesinhaComplement(r, total),
          origem      |-> r.Arquivo_Origem ]
ProcessFrancesinhaReconciliation(df_francesinha, liquidations) ==
    [i \in 1..Len(df_francesinha) |-> FrancesinhaEntry(df_francesinha[i], liquidations)]

\* With Francesinha rows and no settlement row at all there is no merge and no
\* column valor_liquidacao_total: row.get returns the text 'N/A', pd.notna of
\* it is true and f"{'N/A':.2f}" raises ValueError.  f"{x:.2f}" raises it as
\* well for the '' of an empty Valor_RS cell
SemValor(df_francesinha) ==
    \E i \in 1..Len(df_francesinha) : df_francesinha[i].Valor_RS = CELULA_VAZIA
BuildRaises(df_ofx, df_francesinha) ==
    df_francesinha # <<>> /\ (Liquidacoes(df_ofx) = <<>> \/ SemValor(df_francesinha))

\* process_ofx_reconciliation returns one empty DataFrame for an empty df_ofx,
\* which create_reconciliation_dataset unpacks into two names: ValueError
UnpackRaises(df_ofx) == df_ofx = <<>>
CreateReconciliationDatasetRaises(df_ofx, df_francesinha) ==
    UnpackRaises(df_ofx) \/ BuildRaises(df_ofx, df_francesinha)

\* ReconciliationProcessor.create_reconciliation_dataset: the OFX entries,
\* then the Francesinha entries
BuildDataset(df_ofx, df_francesinha) ==
    ProcessOfxReconciliation(df_ofx)
        \o ProcessFrancesinhaReconciliation(df_francesinha, Liquidacoes(df_ofx))

\* A cell without a value (NaN) in a column of account or history codes
NaN == "NaN"

\* The Francesinha part of "Iniciar Conciliação" in the monolith: the column
\* débito is assigned the scalar '' while conciliacao_francesinha has no
\* rows, so it is empty until the assignment of crédito gives the frame its
\* index, which fills débito with NaN
ConciliacaoFrancesinha(df_francesinhas, df_liquidacoes_ofx) ==
    [i \in 1..Len(df_francesinhas) |->
        [FrancesinhaEntry(df_francesinhas[i], df_liquidacoes_ofx) EXCEPT !.debito = NaN]]

\* The dataset "Iniciar Conciliação" builds: pd.concat([conciliacao_ofx,
\* conciliacao_francesinha])
ConcatConciliacao(df_extratos, df_francesinhas) ==
    ProcessOfxReconciliation(df_extratos)
        \o ConciliacaoFrancesinha(df_francesinhas, Liquidacoes(df_extratos))

-----------------------------------------------------------------------------
(* The rule table and the saved rules                                      *)

NumEmpresas == 2
Empresas == 1..NumEmpresas

\* A row of regras_conciliacao for one entry
RegraDe(empresa_id, e) ==
    [ empresa_id        |-> empresa_id,
      complemento_hash  |-> GenerateHash(CreateRuleKey(e)),
      complemento_texto |-> e.complemento,
      debito            |-> e.debito,
      credito           |-> e.credito,
      historico         |-> e.historico ]

\* ON CONFLICT (empresa_id, complemento_hash): the rows a new row conflicts
\* with.  A NULL hash conflicts with nothing
NoConflict(r, nova) == FALSE
Conflict(r, nova) ==
    /\ nova.complemento_hash # None
    /\ r.empresa_id = nova.empresa_id
    /\ r.complemento_hash = nova.complemento_hash

\* INSERT ... ON CONFLICT ... DO UPDATE SET debito, credito, historico,
\* complemento_texto
Upsert(tabela, nova) == {r \in tabela : ~Conflict(r, nova)} \cup {nova}

\* The rows of df_regras that salvar_regras_conciliacao keeps: dropna drops
\* an entry with a NaN among complemento, crédito, débito and histórico, and
\* the filter an entry with neither account
KeepAll(e) == TRUE
KeepForRule(e) ==
    /\ e.credito # NaN /\ e.debito # NaN /\ e.historico # NaN
    /\ e.credito # "" \/ e.debito # ""

\* salvar_regras_conciliacao: the kept rows are upserted in the order of the
\* dataset
RECURSIVE UpsertAll(_, _, _)
UpsertAll(tabela, rows, empresa_id) ==
    IF rows = <<>> THEN tabela
    ELSE UpsertAll(Upsert(tabela, RegraDe(empresa_id, Head(rows))), Tail(rows), empresa_id)
SalvarRegrasConciliacao(tabela, df_regras, empresa_id) ==
    IF df_regras = <<>> \/ empresa_id = 0 THEN tabela
    ELSE UpsertAll(tabela, SelectSeq(df_regras, KeepForRule), empresa_id)

\* SELECT complemento_hash, debito, credito, historico ... WHERE empresa_id,
\* as the dict {hash: row}
EmptyDict == <<>>
RegrasDaEmpresa(tabela, empresa_id) ==
    LET linhas == {r \in tabela : r.empresa_id = empresa_id}
    IN  [h \in {r.complemento_hash : r \in linhas} |->
            LET r == CHOOSE x \in linhas : x.complemento_hash = h
            IN  [debito |-> r.debito, credito |-> r.credito, historico |-> r.historico]]

\* apply_saved_rules on one entry, with the credit column filled from the
\* entry's own debit column instead of the rule
ApplyRuleToEntryCopyPaste(e, saved_rules) ==
    LET h == GenerateHash(CreateRuleKey(e))
    IN  IF h # None /\ h \in DOMAIN saved_rules
          THEN LET rule == saved_rules[h]
               IN  [e EXCEPT
                      !.debito    = IF rule.debito # "" THEN rule.debito ELSE @,
                      !.credito   = IF rule.credito # "" THEN e.debito ELSE @,
                      !.historico = IF rule.historico # "" THEN rule.historico ELSE @]
          ELSE e
\* apply_saved_rules on one entry, with every saved field written, empty or not
ApplyRuleToEntryOverwriteAll(e, saved_rules) ==
    LET h == GenerateHash(CreateRuleKey(e))
    IN  IF h # None /\ h \in DOMAIN saved_rules
          THEN LET rule == saved_rules[h]
               IN  [e EXCEPT !.debito = rule.debito, !.credito = rule.credito,
                             !.historico = rule.historico]
          ELSE e
\* RuleManager.apply_saved_rules, the body of the loop over the rows
ApplyRuleToEntry(e, saved_rules) ==
    LET h == GenerateHash(CreateRuleKey(e))
    IN  IF h # None /\ h \in DOMAIN saved_rules
          THEN LET rule == saved_rules[h]
               IN  [e EXCEPT
                      !.debito    = IF rule.debito # "" THEN rule.debito ELSE @,
                      !.credito   = IF rule.credito # "" THEN rule.credito ELSE @,
                      !.historico = IF rule.historico # "" THEN rule.historico ELSE @]
          ELSE e
\* RuleManager.apply_saved_rules
ApplySavedRules(df, saved_rules) ==
    IF df = <<>> \/ DOMAIN saved_rules = {} THEN df
    ELSE [i \in 1..Len(df) |-> ApplyRuleToEntry(df[i], saved_rules)]

-----------------------------------------------------------------------------
(* Specification SpecApply: apply_saved_rules on a dataset of up to         *)
(* MaxLinhas entries and a dict of saved rules, and again on its result    *)

MaxLinhas == 2

\* The (complemento, origem) of an OFX entry, of a Francesinha principal
\* entry and of the interest entry of the same payer
Chaves ==
    { [complemento |-> <<"D"," ","-"," ","T","A","R","I","F","A"," ","C","O","B","R","A","N","Ç","A">>,
       origem |-> <<"e","x","t","r","a","t","o","_","j","a","n",".","o","f","x">>],
      [complemento |-> <<"C"," ","-"," ","A","C","M","E"," ","L","T","D","A"," ","|"," ","2","5","0",",","0","0"," ","|"," ","X">>,
       origem |-> <<"f","r","a","n","c","e","s","i","n","h","a","_","j","a","n">>],
      [complemento |-> <<"C"," ","-"," ","A","C","M","E"," ","L","T","D","A"," ","|"," ","2","5","0",",","0","0"," ","|"," ","X"," ","|"," ","J","u","r","o","s"," ","d","e"," ","M","o","r","a">>,
       origem |-> <<"J","u","r","o","s"," ","d","e"," ","M","o","r","a">>] }
\* débito, crédito and histórico of an entry, and of a saved rule
EntryCodes ==
    { <<"", "", "">>, <<"52877", "", "8">>, <<NaN, "31103", "20">>,
      <<"52877", "31103", "">> }
RuleCodes ==
    { <<"", "", "">>, <<"13709", "", "">>, <<"", "10550", "78">>,
      <<"13709", "10550", "78">> }

ApplyEntries ==
    { [ selecionar |-> s, debito |-> c[1], credito |-> c[2], historico |-> c[3],
        data |-> <<"0","5","/","0","1","/","2","0","2","4">>,
        valor |-> <<"1",",","5","0">>,
        complemento |-> k.complemento, origem |-> k.origem ] :
      s \in BOOLEAN, c \in EntryCodes, k \in Chaves }
ApplyDatasets == UNION { [1..n -> ApplyEntries] : n \in 0..MaxLinhas }
ApplyHashes == { GenerateHash(CreateRuleKey(e)) : e \in ApplyEntries }
ApplyRuleDicts ==
    UNION { [hs -> { [debito |-> c[1], credito |-> c[2], historico |-> c[3]] :
                     c \in RuleCodes }] : hs \in SUBSET ApplyHashes }

ApplyIdle ==
    /\ aDf = <<>> /\ aRules = EmptyDict /\ aOut = <<>> /\ aOut2 = <<>>
    /\ aPhase = "idle"
InitApply ==
    /\ aDf \in ApplyDatasets
    /\ aRules \in ApplyRuleDicts
    /\ aOut = <<>> /\ aOut2 = <<>> /\ aPhase = "input"

\* RuleManager.apply_saved_rules(df, saved_rules)
Apply ==
    /\ aPhase = "input"
    /\ aOut' = ApplySavedRules(aDf, aRules)
    /\ aPhase' = "applied"
    /\ UNCHANGED <<aDf, aRules, aOut2, cascadeVars, keyVars, ruleVars,
                 buildVars, moraVars, dbVars, uiVars>>

\* RuleManager.apply_saved_rules on the dataset it returned
ApplyAgain ==
    /\ aPhase = "applied"
    /\ aOut2' = ApplySavedRules(aOut, aRules)
    /\ aPhase' = "again"
    /\ UNCHANGED <<aDf, aRules, aOut, cascadeVars, keyVars, ruleVars,
                 buildVars, moraVars, dbVars, uiVars>>

-----------------------------------------------------------------------------
(* Specification Spec: one session of the application against the rule     *)
(* table.  The processed inputs of the session are drawn from Catalogo.    *)

Catalogo ==
  << [ ofx |-> << [tipo |-> <<"D","E","B","I","T">>, memo |-> <<"T","A","R","I","F","A"," ","C","O","B","R","A","N","Ç","A">>,
          payee |-> <<>>, valor |-> -150,
          data |-> [dia |-> 5, mes |-> 1, ano |-> 2024, hora |-> 9],
          arquivo_origem |-> <<"e","x","t","r","a","t","o","_","j","a","n",".","o","f","x">>],
        [tipo |-> <<"C","R","E","D","I","T">>, memo |-> <<"C","R","É","D",".","L","I","Q","U","I","D","A","Ç","Ã","O"," ","C","O","B","R","A","N","Ç","A">>,
          payee |-> <<>>, valor |-> 25000,
          data |-> [dia |-> 5, mes |-> 1, ano |-> 2024, hora |-> 10],
          arquivo_origem |-> <<"e","x","t","r","a","t","o","_","j","a","n",".","o","f","x">>] >>,
      xls |-> << [Sacado |-> <<"A","C","M","E"," ","L","T","D","A">>,
          Nosso_Numero |-> <<"1","0","0","1">>, Seu_Numero |-> <<"7","7">>,
          Dt_Previsao_Credito |-> <<"0","5","/","0","1","/","2","0","2","4">>,
          Vencimento |-> <<"0","5","/","0","1","/","2","0","2","4">>, Dt_Limite_Pgto |-> <<"0","5","/","0","1","/","2","0","2","4">>,
          Dt_Liquid |-> <<"0","5","/","0","1","/","2","0","2","4">>,
          Valor_RS |-> 10000, Vlr_Mora |-> 1500, Vlr_Desc |-> 0, Vlr_Outros_Acresc |-> 0,
          Vlr_Cobrado |-> 11500,
          Arquivo_Origem |-> <<"f","r","a","n","c","e","s","i","n","h","a","_","j","a","n">>] >> ],
     [ ofx |-> << [tipo |-> <<"C","R","E","D","I","T">>, memo |-> <<"C","R"," ","C","O","M","P","R","A","S">>,
          payee |-> <<>>, valor |-> 5000,
          data |-> [dia |-> 6, mes |-> 2, ano |-> 2024, hora |-> 8],
          arquivo_origem |-> <<"e","x","t","r","a","t","o","_","f","e","v",".","o","f","x">>],
        [tipo |-> <<"C","R","E","D","I","T">>, memo |-> <<"C","R","É","D",".","L","I","Q","U","I","D","A","Ç","Ã","O"," ","C","O","B","R","A","N","Ç","A">>,
          payee |-> <<>>, valor |-> 9000,
          data |-> [dia |-> 6, mes |-> 2, ano |-> 2024, hora |-> 11],
          arquivo_origem |-> <<"e","x","t","r","a","t","o","_","f","e","v",".","o","f","x">>] >>,
      xls |-> << [Sacado |-> <<"A","C","M","E"," ","L","T","D","A">>,
          Nosso_Numero |-> <<"1","0","0","1">>, Seu_Numero |-> <<"7","7">>,
          Dt_Previsao_Credito |-> <<"0","6","/","0","2","/","2","0","2","4">>,
          Vencimento |-> <<"0","6","/","0","2","/","2","0","2","4">>, Dt_Limite_Pgto |-> <<"0","6","/","0","2","/","2","0","2","4">>,
          Dt_Liquid |-> <<"0","6","/","0","2","/","2","0","2","4">>,
          Valor_RS |-> 9000, Vlr_Mora |-> 0, Vlr_Desc |-> 0, Vlr_Outros_Acresc |-> 0,
          Vlr_Cobrado |-> 9000,
          Arquivo_Origem |-> <<"c","o","b","r","a","n","c","a","_","f","e","v">>] >> ],
     [ ofx |-> << [tipo |-> <<"D","E","B","I","T">>, memo |-> <<"S","A","L","A","R","I","O">>,
          payee |-> <<"U","N","I","M","E","D">>, valor |-> -70000,
          data |-> [dia |-> 7, mes |-> 3, ano |-> 2024, hora |-> 9],
          arquivo_origem |-> <<"e","x","t","r","a","t","o","_","m","a","r",".","o","f","x">>] >>,
      xls |-> << [Sacado |-> <<"J","O","A","O"," ","S","I","L","V","A">>,
          Nosso_Numero |-> <<"1","0","0","1">>, Seu_Numero |-> <<"7","7">>,
          Dt_Previsao_Credito |-> <<"0","7","/","0","3","/","2","0","2","4">>,
          Vencimento |-> <<"0","7","/","0","3","/","2","0","2","4">>, Dt_Limite_Pgto |-> <<"0","7","/","0","3","/","2","0","2","4">>,
          Dt_Liquid |-> <<"0","7","/","0","3","/","2","0","2","4">>,
          Valor_RS |-> 3000, Vlr_Mora |-> 0, Vlr_Desc |-> 0, Vlr_Outros_Acresc |-> 0,
          Vlr_Cobrado |-> 3000,
          Arquivo_Origem |-> <<"f","r","a","n","c","e","s","i","n","h","a","_","m","a","r">>] >> ] >>

MaxEdicoes == 1
MaxSalvamentos == 2
EditCodes == {"13709"}
Campos == {"debito", "credito", "historico"}

Ultimo(op, app) == [op |-> op, app |-> app]
Outro == Ultimo("outro", ultimo.app)

RulesIdle ==
    /\ regras = {}
    /\ cache = [e \in Empresas |-> [valido |-> FALSE, regras |-> EmptyDict]]
    /\ empresa_ativa = 0 /\ arquivos = 0
    /\ df_conciliacao = <<>> /\ base = 0 /\ edicoes = 0
    /\ salvamentos = 0
    /\ ultimo = Ultimo("outro", "")

\* The company selector of the sidebar (atualizar_empresa_ativa)
SelecionarEmpresa(e) ==
    /\ e # empresa_ativa
    /\ empresa_ativa' = e
    /\ ultimo' = Outro
    /\ UNCHANGED <<regras, cache, arquivos, df_conciliacao, base, edicoes, salvamentos,
                 cascadeVars, keyVars, applyVars,
                 buildVars, moraVars, dbVars, uiVars>>

\* The OFX and Francesinha files are processed into df_extratos_final and
\* df_francesinhas_final
ProcessarArquivos(a) ==
    /\ a # arquivos
    /\ arquivos' = a
    /\ ultimo' = Outro
    /\ UNCHANGED <<regras, cache, empresa_ativa, df_conciliacao, base, edicoes, salvamentos,
                 cascadeVars, keyVars, applyVars,
                 buildVars, moraVars, dbVars, uiVars>>

DfExtratos(a) == Catalogo[a].ofx
DfFrancesinhas(a) == GerarFrancesinhaCompleta(Catalogo[a].xls)

\* carregar_regras_conciliacao under @st.cache_data(ttl=300): the value cached
\* for the company while it is valid, else the table as it is now
CarregarRegrasConciliacao(empresa_id) ==
    IF cache[empresa_id].valido THEN cache[empresa_id].regras
    ELSE RegrasDaEmpresa(regras, empresa_id)

\* "Iniciar Conciliação" of the monolith and of app2: build, then replay the
\* saved rules of the active company
IniciarConciliacao ==
    /\ arquivos # 0
    /\ IF BuildRaises(DfExtratos(arquivos), DfFrancesinhas(arquivos))
         THEN /\ ultimo' = Ultimo("erro", ultimo.app)
              /\ UNCHANGED <<cache, df_conciliacao, base>>
         ELSE LET built == ConcatConciliacao(DfExtratos(arquivos), DfFrancesinhas(arquivos))
                  regras_salvas == IF empresa_ativa # 0
                                     THEN CarregarRegrasConciliacao(empresa_ativa)
                                     ELSE EmptyDict
              IN  /\ df_conciliacao' = ApplySavedRules(built, regras_salvas)
                  /\ cache' = IF empresa_ativa # 0
                                THEN [cache EXCEPT ![empresa_ativa] =
                                        [valido |-> TRUE, regras |-> regras_salvas]]
                                ELSE cache
                  /\ base' = arquivos
                  /\ ultimo' = Ultimo("conciliar", "monolito")
    /\ UNCHANGED <<regras, empresa_ativa, arquivos, edicoes, salvamentos,
                 cascadeVars, keyVars, applyVars,
                 buildVars, moraVars, dbVars, uiVars>>

\* AppController._process_reconciliation of the refactored application: the
\* dataset is stored as built; loading the saved rules is a TODO
ProcessReconciliation ==
    /\ arquivos # 0
    /\ IF CreateReconciliationDatasetRaises(DfExtratos(arquivos), DfFrancesinhas(arquivos))
         THEN /\ ultimo' = Ultimo("erro", ultimo.app)
              /\ UNCHANGED <<df_conciliacao, base>>
         ELSE LET built == BuildDataset(DfExtratos(arquivos), DfFrancesinhas(arquivos))
              IN  /\ df_conciliacao' = built
                  /\ base' = arquivos
                  /\ ultimo' = Ultimo("conciliar", "refatorado")
    /\ UNCHANGED <<regras, cache, empresa_ativa, arquivos, edicoes, salvamentos,
                 cascadeVars, keyVars, applyVars,
                 buildVars, moraVars, dbVars, uiVars>>

\* The 300 seconds of the cache entry of a company run out
ExpirarCache(e) ==
    /\ cache[e].valido
    /\ cache' = [cache EXCEPT ![e] = [valido |-> FALSE, regras |-> EmptyDict]]
    /\ UNCHANGED <<regras, empresa_ativa, arquivos, df_conciliacao, base, edicoes, salvamentos, ultimo,
                 cascadeVars, keyVars, applyVars,
                 buildVars, moraVars, dbVars, uiVars>>

\* The operator types a code into a débito, crédito or histórico cell of the
\* data editor, and df_conciliacao.update(edited_df) stores it
SetCampo(e, campo, v) ==
    IF campo = "debito" THEN [e EXCEPT !.debito = v]
    ELSE IF campo = "credito" THEN [e EXCEPT !.credito = v]
    ELSE [e EXCEPT !.historico = v]
EditarCelula(i, campo, v) ==
    /\ df_conciliacao # <<>>
    /\ edicoes < MaxEdicoes
    /\ i \in 1..Len(df_conciliacao)
    /\ SetCampo(df_conciliacao[i], campo, v) # df_conciliacao[i]
    /\ df_conciliacao' = [df_conciliacao EXCEPT ![i] = SetCampo(@, campo, v)]
    /\ edicoes' = edicoes + 1
    /\ ultimo' = Outro
    /\ UNCHANGED <<regras, cache, empresa_ativa, arquivos, base, salvamentos,
                 cascadeVars, keyVars, applyVars,
                 buildVars, moraVars, dbVars, uiVars>>

\* salvar_conciliacao_final: the rules of the dataset are upserted in the
\* transaction of the save, which commits, or fails and is rolled back
SalvarConciliacaoFinal ==
    /\ ultimo.app = "monolito"
    /\ df_conciliacao # <<>>
    /\ empresa_ativa # 0
    /\ \/ /\ salvamentos < MaxSalvamentos
          /\ regras' = SalvarRegrasConciliacao(regras, df_conciliacao, empresa_ativa)
          /\ salvamentos' = salvamentos + 1
          /\ ultimo' = Ultimo("salvar", "monolito")
       \/ /\ UNCHANGED <<regras, salvamentos>>
          /\ ultimo' = Ultimo("rollback", "monolito")
    /\ UNCHANGED <<cache, empresa_ativa, arquivos, df_conciliacao, base, edicoes,
                 cascadeVars, keyVars, applyVars,
                 buildVars, moraVars, dbVars, uiVars>>

\* ReconciliationRepository.save_reconciliation of the refactored
\* application: the ledger rows are written, and no rule is
SaveReconciliation ==
    /\ ultimo.app = "refatorado"
    /\ df_conciliacao # <<>>
    /\ empresa_ativa # 0
    /\ ultimo' = Ultimo("salvar", "refatorado")
    /\ UNCHANGED <<regras, cache, empresa_ativa, arquivos, df_conciliacao, base, edicoes,
                 salvamentos, cascadeVars, keyVars, applyVars,
                 buildVars, moraVars, dbVars, uiVars>>

-----------------------------------------------------------------------------
(* Specification SpecBuild: the reconciliation dataset built from one pair *)
(* of processed inputs                                                     *)

MaxOfx == 3
MaxXls == 2

SeqsUpTo(S, n) == UNION {[1..k -> S] : k \in 0..n}

EXTRATO_OFX == <<"e","x","t","r","a","t","o",".","o","f","x">>
FRANCESINHA_JAN == <<"f","r","a","n","c","e","s","i","n","h","a","_","j","a","n">>
COBRANCA_FEV == <<"c","o","b","r","a","n","c","a","_","f","e","v">>
OfxRow(tipo, memo, valor, dia, hora) ==
    [ tipo |-> tipo, memo |-> memo, payee |-> <<>>, valor |-> valor,
      data |-> [dia |-> dia, mes |-> 1, ano |-> 2024, hora |-> hora],
      arquivo_origem |-> EXTRATO_OFX ]
\* The OFX rows of the inputs: a fee, three settlements of which two are of
\* one day at different hours, and a credit no rule of the cascade matches
BuildOfxRows ==
    { OfxRow(TIPO_DEBIT, KW_TARIFA_COBRANCA, -150, 5, 9),
      OfxRow(TIPO_CREDIT, MARKER_LIQUIDACAO, 25000, 5, 10),
      OfxRow(TIPO_CREDIT, MARKER_LIQUIDACAO, 4000, 5, 15),
      OfxRow(TIPO_CREDIT, MARKER_LIQUIDACAO, 9000, 6, 11),
      OfxRow(TIPO_CREDIT, <<"D","E","P","O","S","I","T","O">>, 1234, 6, 12) }

\* A row as processar_francesinha_xls / process_francesinha_file reads it
Titulo(sacado, dt_liquid, valor_rs, vlr_mora, vlr_desc) ==
    [ Sacado |-> sacado, Nosso_Numero |-> <<"1","0","0","1">>, Seu_Numero |-> <<"7","7">>,
      Dt_Previsao_Credito |-> <<"0","5","/","0","1","/","2","0","2","4">>,
      Vencimento |-> <<"0","2","/","0","1","/","2","0","2","4">>,
      Dt_Limite_Pgto |-> <<"0","4","/","0","1","/","2","0","2","4">>,
      Valor_RS |-> valor_rs, Vlr_Mora |-> vlr_mora, Vlr_Desc |-> vlr_desc,
      Vlr_Outros_Acresc |-> 0, Dt_Liquid |-> dt_liquid,
      Vlr_Cobrado |-> (IF valor_rs = CELULA_VAZIA THEN 0 ELSE valor_rs) + vlr_mora - vlr_desc,
      Arquivo_Origem |-> FRANCESINHA_JAN ]
ACME == <<"A","C","M","E"," ","L","T","D","A">>
JOAO == <<"J","O","A","O"," ","S","I","L","V","A">>
\* The rows of the Francesinha files: a title paid late, a title paid in
\* time, a title whose settlement date is not a dd/mm/yyyy date, a title
\* whose Valor_RS cell is empty, and a title of the file cobranca_fev.xls
BuildXlsRows ==
    { Titulo(ACME, <<"0","5","/","0","1","/","2","0","2","4">>, 10000, 1500, 0),
      Titulo(JOAO, <<"0","6","/","0","1","/","2","0","2","4">>, 3000, 0, 0),
      Titulo(JOAO, <<"2","0","2","4","-","0","1","-","0","5">>, 2000, 0, 0),
      Titulo(ACME, <<"0","5","/","0","1","/","2","0","2","4">>, CELULA_VAZIA, 0, 0),
      [Titulo(JOAO, <<"0","5","/","0","1","/","2","0","2","4">>, 6000, 0, 0)
          EXCEPT !.Arquivo_Origem = COBRANCA_FEV] }

NoResult == [raised |-> FALSE, df |-> <<>>, agregou |-> FALSE, liquidations_agg |-> <<>>]
BuildIdle ==
    /\ bOfx = <<>> /\ bFran = <<>> /\ bRes = NoResult /\ bPhase = "idle"
InitBuild ==
    /\ bOfx \in SeqsUpTo(BuildOfxRows, MaxOfx)
    /\ \E xls \in SeqsUpTo(BuildXlsRows, MaxXls) : bFran = GerarFrancesinhaCompleta(xls)
    /\ bRes = NoResult /\ bPhase = "input"

\* What a build leaves: the exception, or the dataset and the date totals
\* the merge used
BuildResult(raised, df, df_ofx, df_francesinha) ==
    IF raised THEN [NoResult EXCEPT !.raised = TRUE]
    ELSE [ raised  |-> FALSE,
           df      |-> df,
           agregou |-> df_francesinha # <<>> /\ Liquidacoes(df_ofx) # <<>>,
           liquidations_agg |->
               IF df_francesinha # <<>> /\ Liquidacoes(df_ofx) # <<>>
                 THEN GroupBySum(Liquidacoes(df_ofx)) ELSE <<>> ]

\* ReconciliationProcessor.create_reconciliation_dataset(df_ofx, df_francesinha)
CreateReconciliationDataset ==
    /\ bPhase = "input"
    /\ bRes' = BuildResult(CreateReconciliationDatasetRaises(bOfx, bFran),
                           BuildDataset(bOfx, bFran), bOfx, bFran)
    /\ bPhase' = "refatorado"
    /\ UNCHANGED <<bOfx, bFran, cascadeVars, keyVars, applyVars, ruleVars, moraVars, dbVars, uiVars>>

\* "Iniciar Conciliação" of the monolith with no company selected: the button
\* is there once df_extratos_final is, and no rule is loaded
IniciarConciliacaoSemEmpresa ==
    /\ bPhase = "input"
    /\ bOfx # <<>>
    /\ bRes' = BuildResult(BuildRaises(bOfx, bFran),
                           ConcatConciliacao(bOfx, bFran), bOfx, bFran)
    /\ bPhase' = "monolito"
    /\ UNCHANGED <<bOfx, bFran, cascadeVars, keyVars, applyVars, ruleVars, moraVars, dbVars, uiVars>>

-----------------------------------------------------------------------------
(* Specification SpecMora: the Francesinha files of a session are          *)
(* processed, and processed again, into df_francesinhas_final              *)

MaxTitulos == 2
MaxProcessamentos == 2

ArquivosXls == {FRANCESINHA_JAN, COBRANCA_FEV}
\* st.file_uploader(accept_multiple_files=True): the files uploaded, in order
Uploads == {u \in SeqsUpTo(ArquivosXls, 2) : u # <<>> /\ (Len(u) = 2 => u[1] # u[2])}

\* The rows of a file: paid late, paid in time, paid late with a discount,
\* paid late with no Dt_Previsao_Credito, and with an empty Vlr_Mora cell
MoraRows ==
    { Titulo(ACME, <<"0","5","/","0","1","/","2","0","2","4">>, 10000, 1500, 0),
      Titulo(JOAO, <<"0","6","/","0","1","/","2","0","2","4">>, 3000, 0, 0),
      Titulo(ACME, <<"0","6","/","0","1","/","2","0","2","4">>, 5000, 700, 200),
      [Titulo(JOAO, <<"0","5","/","0","1","/","2","0","2","4">>, 4000, 900, 0)
          EXCEPT !.Dt_Previsao_Credito = <<>>],
      [Titulo(JOAO, <<"0","5","/","0","1","/","2","0","2","4">>, 8000, 0, 0)
          EXCEPT !.Vlr_Mora = CELULA_VAZIA] }

MoraIdle ==
    /\ planilhas = <<>> /\ df_francesinhas_final = <<>>
    /\ linhas_mora_count = 0 /\ processamentos = <<>>
\* No dataset is stored when the session starts
InitMora ==
    /\ planilhas \in [ArquivosXls -> SeqsUpTo(MoraRows, MaxTitulos)]
    /\ df_francesinhas_final = <<>>
    /\ linhas_mora_count = 0 /\ processamentos = <<>>

\* df_francesinha['Arquivo_Origem'] = arquivo.name.replace('.xls', '')...
ComOrigem(rows, nome) == [i \in 1..Len(rows) |-> [rows[i] EXCEPT !.Arquivo_Origem = nome]]
\* A variant that appends the rows read to the stored dataset
RECURSIVE DadosFrancesinhasOnStored(_)
DadosFrancesinhasOnStored(u) ==
    IF u = <<>> THEN df_francesinhas_final
    ELSE DadosFrancesinhasOnStored(SubSeq(u, 1, Len(u) - 1))
            \o ComOrigem(planilhas[u[Len(u)]], u[Len(u)])
\* pd.concat(dados_francesinhas): the rows of the uploaded files, read anew
RECURSIVE DadosFrancesinhas(_)
DadosFrancesinhas(u) ==
    IF u = <<>> THEN <<>>
    ELSE DadosFrancesinhas(SubSeq(u, 1, Len(u) - 1))
            \o ComOrigem(planilhas[u[Len(u)]], u[Len(u)])
\* filter_valid_records: the rows whose Dt_Previsao_Credito is filled
FilterValidRecords(df) ==
    LET Preenchida(r) == r.Dt_Previsao_Credito # <<>> IN SelectSeq(df, Preenchida)
\* len(linhas_mora)
CountMora(df) == LET TemMora(r) == VlrMora(r) > 0 IN Len(SelectSeq(df, TemMora))

\* "Gerar Francesinha Completa" of the monolith
GerarFrancesinha(u) ==
    /\ Len(processamentos) < MaxProcessamentos
    /\ LET dados_francesinhas == DadosFrancesinhas(u)
           filtrado == FilterValidRecords(dados_francesinhas)
       IN  IF dados_francesinhas # <<>>
             THEN /\ df_francesinhas_final' = GerarFrancesinhaCompleta(filtrado)
                  /\ linhas_mora_count' = CountMora(filtrado)
             ELSE /\ df_francesinhas_final' = <<>>
                  /\ linhas_mora_count' = 0
    /\ processamentos' = Append(processamentos, u)
    /\ UNCHANGED <<planilhas, cascadeVars, keyVars, applyVars, ruleVars, buildVars, dbVars, uiVars>>

\* AppController._process_francesinha_files of the refactored application,
\* on FrancesinhaProcessor.process_multiple_francesinha_files: an empty
\* result leaves the stored dataset as it is
ProcessFrancesinhaFiles(u) ==
    /\ Len(processamentos) < MaxProcessamentos
    /\ LET all_data == DadosFrancesinhas(u)
           filtered_df == FilterValidRecords(all_data)
           df_result == GerarFrancesinhaCompleta(filtered_df)
       IN  IF df_result # <<>>
             THEN /\ df_francesinhas_final' = df_result
                  /\ linhas_mora_count' = CountMora(filtered_df)
             ELSE UNCHANGED <<df_francesinhas_final, linhas_mora_count>>
    /\ processamentos' = Append(processamentos, u)
    /\ UNCHANGED <<planilhas, cascadeVars, keyVars, applyVars, ruleVars, buildVars, dbVars, uiVars>>

-----------------------------------------------------------------------------
(* Specification SpecSave: the transaction of a reconciliation save        *)
(* against the tables lancamentos_conciliacao, conciliacoes and            *)
(* regras_conciliacao                                                      *)

MaxConciliacoes == 3

\* A row of lancamentos_conciliacao: the columns of df_db
LancamentoDe(e, ordem, conciliacao_id, empresa_id) ==
    [ conciliacao_id |-> conciliacao_id, empresa_id |-> empresa_id, ordem |-> ordem,
      debito |-> e.debito, credito |-> e.credito, historico |-> e.historico,
      data |-> e.data, valor |-> e.valor, complemento |-> e.complemento,
      origem |-> e.origem ]

\* SELECT DISTINCT origem FROM lancamentos_conciliacao WHERE empresa_id = ...
\* AND origem = ANY(origens of df)
VerificarConciliacaoExistente(tabelas, empresa_id, df) ==
    {o \in {df[i].origem : i \in 1..Len(df)} :
        \E l \in tabelas.lancamentos : l.empresa_id = empresa_id /\ l.origem = o}

\* pd.to_datetime(df_db['data'], format='%d/%m/%Y') raises ValueError on a
\* text that is no date in that format
ToDatetimeRaises(df) == \E i \in 1..Len(df) : ToDatetime(df[i].data) = NaT

\* The statements of the transaction, in the order the code runs them
PassosSalvarConciliacaoFinal(origens) ==
    (IF origens # {} THEN <<"delete">> ELSE <<>>)
        \o <<"conciliacao", "to_datetime", "to_sql", "regras", "commit">>
PassosSaveReconciliation == <<"conciliacao", "to_datetime", "to_sql", "commit">>
Falhas == {"nenhuma", "delete", "conciliacao", "to_sql", "regras", "commit"}

\* A variant whose to_sql replaces the table (if_exists='replace')
PassoReplace(w, passo, df, empresa_id, origens) ==
    CASE passo = "delete" ->
            [w EXCEPT !.lancamentos =
                {l \in @ : ~(l.empresa_id = empresa_id /\ l.origem \in origens)}]
      [] passo = "conciliacao" -> [w EXCEPT !.conciliacoes = @ + 1]
      [] passo = "to_sql" ->
            [w EXCEPT !.lancamentos =
                {LancamentoDe(df[i], i, w.conciliacoes, empresa_id) : i \in 1..Len(df)}]
      [] passo = "regras" ->
            [w EXCEPT !.regras = SalvarRegrasConciliacao(@, df, empresa_id)]
      [] OTHER -> w
\* The tables as the connection sees them after one statement
Passo(w, passo, df, empresa_id, origens) ==
    CASE passo = "delete" ->
            [w EXCEPT !.lancamentos =
                {l \in @ : ~(l.empresa_id = empresa_id /\ l.origem \in origens)}]
      [] passo = "conciliacao" -> [w EXCEPT !.conciliacoes = @ + 1]
      [] passo = "to_sql" ->
            [w EXCEPT !.lancamentos =
                @ \cup {LancamentoDe(df[i], i, w.conciliacoes, empresa_id) : i \in 1..Len(df)}]
      [] passo = "regras" ->
            [w EXCEPT !.regras = SalvarRegrasConciliacao(@, df, empresa_id)]
      [] OTHER -> w

\* The try block: the statements run one after the other on the connection
\* until one raises
RECURSIVE Executar(_, _, _, _, _, _)
Executar(w, passos, falha, df, empresa_id, origens) ==
    IF passos = <<>> THEN [tabelas |-> w, passo |-> "nenhuma"]
    ELSE IF Head(passos) = falha THEN [tabelas |-> w, passo |-> falha]
    ELSE IF Head(passos) = "to_datetime" /\ ToDatetimeRaises(df)
           THEN [tabelas |-> w, passo |-> "to_datetime"]
    ELSE Executar(Passo(w, Head(passos), df, empresa_id, origens), Tail(passos),
                  falha, df, empresa_id, origens)

\* A rollback that undoes nothing
RollbackKeepsWork(antes, w) == w
\* trans.rollback(): the tables are what they were when the transaction began
Rollback(antes, w) == antes

DB0 == [lancamentos |-> {}, conciliacoes |-> 0, regras |-> {}]
SaveOfx ==
    << OfxRow(TIPO_DEBIT, KW_TARIFA_COBRANCA, -150, 5, 9),
       OfxRow(TIPO_CREDIT, MARKER_LIQUIDACAO, 25000, 5, 10) >>
\* The datasets to save: built by either application from a statement and a
\* title paid late, and one with a title whose settlement date is no date
SaveDatasets ==
    { BuildDataset(SaveOfx, GerarFrancesinhaCompleta(
          <<Titulo(ACME, <<"0","5","/","0","1","/","2","0","2","4">>, 10000, 1500, 0)>>)),
      ConcatConciliacao(SaveOfx, GerarFrancesinhaCompleta(
          <<Titulo(ACME, <<"0","5","/","0","1","/","2","0","2","4">>, 10000, 1500, 0)>>)),
      BuildDataset(SaveOfx,
          <<Titulo(JOAO, <<"0","6","/","0","1","/","2","0","2","4">>, 3000, 0, 0)>>),
      BuildDataset(SaveOfx,
          <<Titulo(JOAO, <<"2","0","2","4","-","0","1","-","0","5">>, 2000, 0, 0)>>) }
\* The tables before the session: empty, or with an entry and a rule that an
\* earlier save of each company left, or with the entries that an earlier
\* save of the first company left, one of them of another origin file
DbStates ==
    { DB0,
      [ lancamentos |->
            {LancamentoDe(OfxEntry(SaveOfx[1]), 1, 1, e) : e \in Empresas},
        conciliacoes |-> 1,
        regras |-> {RegraDe(e, [OfxEntry(SaveOfx[1]) EXCEPT !.debito = "13709"]) :
                        e \in Empresas} ],
      [ lancamentos |->
            { LancamentoDe(OfxEntry(SaveOfx[1]), 1, 1, 1),
              LancamentoDe([OfxEntry(SaveOfx[1]) EXCEPT !.origem = COBRANCA_FEV], 2, 1, 1) },
        conciliacoes |-> 1,
        regras |-> {} ] }

NoSaveResult == [app |-> "", passo |-> "", ret |-> 0, erro |-> ""]
SaveIdle ==
    /\ db = DB0 /\ sDf = <<>> /\ sEmpresa = 0 /\ sRes = NoSaveResult
InitSave ==
    /\ db \in DbStates
    /\ sDf \in SaveDatasets
    /\ sEmpresa \in Empresas
    /\ sRes = NoSaveResult

\* salvar_conciliacao_final(df_para_salvar, empresa_id, origens_existentes),
\* from either save button of the monolith
SalvarConciliacaoFinalTx(falha) ==
    /\ db.conciliacoes < MaxConciliacoes
    /\ LET origens == VerificarConciliacaoExistente(db, sEmpresa, sDf)
           r == Executar(db, PassosSalvarConciliacaoFinal(origens), falha,
                         sDf, sEmpresa, origens)
       IN  IF r.passo = "nenhuma"
             THEN /\ db' = r.tabelas
                  /\ sRes' = [app |-> "monolito", passo |-> "nenhuma",
                              ret |-> Len(sDf), erro |-> ""]
             ELSE /\ db' = Rollback(db, r.tabelas)
                  /\ sRes' = [app |-> "monolito", passo |-> r.passo,
                              ret |-> 0, erro |-> "st.error"]
    /\ UNCHANGED <<sDf, sEmpresa, cascadeVars, keyVars, applyVars, ruleVars, buildVars, moraVars, uiVars>>

\* ReconciliationRepository.save_reconciliation(df, empresa_id): an
\* SQLAlchemyError is logged and 0 is returned, any other exception is raised
\* again after the rollback
SaveReconciliationTx(falha) ==
    /\ db.conciliacoes < MaxConciliacoes
    /\ LET r == Executar(db, PassosSaveReconciliation, falha, sDf, sEmpresa, {})
       IN  IF r.passo = "nenhuma"
             THEN /\ db' = r.tabelas
                  /\ sRes' = [app |-> "refatorado", passo |-> "nenhuma",
                              ret |-> Len(sDf), erro |-> ""]
             ELSE /\ db' = Rollback(db, r.tabelas)
                  /\ sRes' = [app |-> "refatorado", passo |-> r.passo, ret |-> 0,
                              erro |-> IF r.passo = "to_datetime" THEN "raise"
                                       ELSE "logger.error"]
    /\ UNCHANGED <<sDf, sEmpresa, cascadeVars, keyVars, applyVars, ruleVars, buildVars, moraVars, uiVars>>

-----------------------------------------------------------------------------
(* Specification SpecClassify: the entity classifier, one name at a time   *)
(* (classify_entity) and a list at a time (classify_batch)                 *)

MaxNomes == 2

COMPANY_SUFFIXES ==
    { <<"L","T","D","A">>,
      <<"S","/","A">>,
      <<"S","A">>,
      <<"M","E">>,
      <<"E","I","R","E","L","I">>,
      <<"C","I","A">>,
      <<"M","E","I">>,
      <<"E","P","P">>,
      <<"E","I","R","E","L","E">>,
      <<"S",".","A">>,
      <<"A","S","S","O","C","I","A","C","A","O">>,
      <<"S","E","G","U","R","A","N","C","A">>,
      <<"A","U","T","O","M","A","C","A","O">>,
      <<"R","O","B","O","T","I","C","A">>,
      <<"T","E","C","N","O","L","O","G","I","A">>,
      <<"S","O","L","U","C","O","E","S">>,
      <<"C","O","M","E","R","C","I","O">>,
      <<"F","E","R","R","A","M","E","N","T","A","S">>,
      <<"C","F","C">>,
      <<"C","O","R","R","E","S","P","O","N","D","E","N","T","E">>,
      <<"P","E","T"," ","S","E","R","V","I","C","E">>,
      <<"O","R","G","A","N","I","Z","A","C","A","O">>,
      <<"I","N","S","T","A","L","A","C","O","E","S">>,
      <<"T","R","E","I","N","A","M","E","N","T","O","S">>,
      <<"G","R","E","M","I","O">>,
      <<"I","G","R","E","J","A">>,
      <<"I","N","D","U","S","T","R","I","A">>,
      <<"S","I","N","D","I","C","A","T","O">>,
      <<"C","O","N","S","T","R","U","T","O","R","A">>,
      <<"S","O","F","T","W","A","R","E">>,
      <<"M","O","T","O","R","E","S">>,
      <<"A","R","M","A","Z","E","N","A","G","E","M">>,
      <<"C","O","N","T","A","B","E","I","S">>,
      <<"A","C","O">>,
      <<"E","Q","U","I","P","A","M","E","N","T","O","S">>,
      <<"E","X","P","R","E","S","S">>,
      <<"T","R","A","N","S","P","O","R","T","E","S">> }
PJ == "PJ"
PF == "PF"
INDEFINIDO == "Indefinido"

\* any(suffix in entity_name.upper() for suffix in COMPANY_SUFFIXES)
HasCompanySuffix(entity_name) ==
    \E suffix \in COMPANY_SUFFIXES : Contains(Upper(entity_name), suffix)
\* str.isupper(): some cased character, and no lower-case one
IsUpper(s) ==
    /\ \E i \in 1..Len(s) : s[i] \in Range(LowerChars) \cup Range(UpperChars)
    /\ \A i \in 1..Len(s) : s[i] \notin Range(LowerChars)
\* len(s.split()): the runs of characters that are no whitespace
WordCount(s) ==
    Cardinality({i \in 1..Len(s) : s[i] # " " /\ (i = 1 \/ s[i - 1] = " ")})

\* The names: none, one with a company suffix, a person's name, a one-word
\* name in capitals, and a name of five words
Nomes ==
    { <<>>, <<"A","C","M","E"," ","L","T","D","A">>,
      <<"J","o","a","o"," ","S","i","l","v","a">>,
      <<"D","O","H","L","E","R">>,
      <<"A","n","a"," ","L","u","z"," ","d","e"," ","S","o","u","t","o"," ","P","i","r","e","s">> }
\* The names the model is asked about: the others are decided before it
NomesNlp == {n \in Nomes : n # <<>> /\ ~HasCompanySuffix(n)}
\* doc.ents of a name: the labels of the entities found, in order
Ents == { <<>>, <<"PER">>, <<"ORG">>, <<"PER", "ORG">> }
\* self._nlp after _load_spacy_model: None when the model is not installed;
\* a loaded model gives each name the same entities whenever it is asked
Recognizers ==
    {[loaded |-> FALSE, ents |-> [n \in NomesNlp |-> <<>>]]}
        \cup {[loaded |-> TRUE, ents |-> f] : f \in [NomesNlp -> Ents]}

\* The first entity of doc.ents that is an ORG or a PER
RECURSIVE FirstOrgOrPer(_)
FirstOrgOrPer(ents) ==
    IF ents = <<>> THEN ""
    ELSE IF Head(ents) \in {"ORG", "PER"} THEN Head(ents)
    ELSE FirstOrgOrPer(Tail(ents))

\* EntityClassifier.classify_entity
ClassifyEntity(model, entity_name) ==
    IF ~model.loaded \/ entity_name = <<>> THEN INDEFINIDO
    ELSE IF HasCompanySuffix(entity_name) THEN PJ
    ELSE IF FirstOrgOrPer(model.ents[entity_name]) = "ORG" THEN PJ
    ELSE IF FirstOrgOrPer(model.ents[entity_name]) = "PER" THEN PF
    ELSE IF WordCount(entity_name) <= 4 THEN PF
    ELSE INDEFINIDO

\* classifications[entity_name] = value
SetItem(d, k, v) == [x \in DOMAIN d \cup {k} |-> IF x = k THEN v ELSE d[x]]
\* One turn of the loop of classify_batch
ClassifyInBatch(model, entity_name) ==
    LET is_person == model.loaded /\ \E i \in 1..Len(model.ents[entity_name]) :
                                        model.ents[entity_name][i] = "PER"
        is_organization == model.loaded /\ \E i \in 1..Len(model.ents[entity_name]) :
                                        model.ents[entity_name][i] = "ORG"
    IN  IF HasCompanySuffix(entity_name) THEN PJ
        ELSE IF is_person /\ ~is_organization THEN PF
        ELSE IF is_organization /\ ~is_person THEN PJ
        ELSE IF IsUpper(entity_name) /\ WordCount(entity_name) > 1 THEN PJ
        ELSE PJ
\* EntityClassifier.classify_batch: an empty name gets no key
RECURSIVE ClassifyBatch(_, _, _)
ClassifyBatch(model, entity_names, classifications) ==
    IF entity_names = <<>> THEN classifications
    ELSE ClassifyBatch(model, Tail(entity_names),
            IF Head(entity_names) = <<>> THEN classifications
            ELSE SetItem(classifications, Head(entity_names),
                         ClassifyInBatch(model, Head(entity_names))))

NoClassification == [name |-> <<>>, res |-> ""]
NoBatch == [done |-> FALSE, classifications |-> <<>>]
ClassIdle ==
    /\ nlp = [loaded |-> FALSE, ents |-> <<>>] /\ cNames = <<>>
    /\ cBatch = NoBatch /\ cEntity = NoClassification
InitClassify ==
    /\ nlp \in Recognizers
    /\ cNames \in SeqsUpTo(Nomes, MaxNomes)
    /\ cBatch = NoBatch /\ cEntity = NoClassification

\* df_francesinha['Sacado'].apply(self.entity_classifier.classify_entity),
\* for one name
ClassifyOne(n) ==
    /\ cEntity' = [name |-> n, res |-> ClassifyEntity(nlp, n)]
    /\ UNCHANGED <<nlp, cNames, cBatch, cascadeVars, keyVars, applyVars, ruleVars,
                   buildVars, moraVars, dbVars, reviewVars, confirmVars, lockVars>>

\* entity_classifier.classify_batch(cNames)
ClassifyList ==
    /\ cBatch' = [done |-> TRUE, classifications |-> ClassifyBatch(nlp, cNames, <<>>)]
    /\ UNCHANGED <<nlp, cNames, cEntity, cascadeVars, keyVars, applyVars, ruleVars,
                   buildVars, moraVars, dbVars, reviewVars, confirmVars, lockVars>>

-----------------------------------------------------------------------------
(* Specification SpecReview: the review of a built dataset: the list of PJ *)
(* clients, the data editor and the batch edit                             *)

MaxRevisao == 2
MaxPassos == 2

\* str.replace(old, ''): every occurrence of old is taken out, left to right
RECURSIVE Remove(_, _)
Remove(s, old) ==
    IF Len(s) < Len(old) THEN s
    ELSE IF SubSeq(s, 1, Len(old)) = old THEN Remove(SubSeq(s, Len(old) + 1, Len(s)), old)
    ELSE <<Head(s)>> \o Remove(Tail(s), old)
C_HIFEN == <<"C"," ","-">>
FRANCESINHA == <<"f","r","a","n","c","e","s","i","n","h","a">>

\* df_atual['complemento'].str.split('|').str[0].str.replace('C -', '')
\*     .str.strip().str.upper().str[:40]
SacadoTemp(e) == Prefix(Upper(Strip(Remove(SplitPipe(e.complemento)[1], C_HIFEN))), 40)
\* [nome[:40] for nome in nomes_clientes_pj], the lines stripped and upper-cased
NomesClientesPjLimitados(lista) ==
    {Prefix(Upper(Strip(lista[k])), 40) : k \in 1..Len(lista)}
\* df_atual['origem'].str.contains('francesinha', case=False, na=False)
CondicaoFrancesinha(e) == Contains(Lower(e.origem), FRANCESINHA)
\* "Aplicar Lista de Clientes e Reclassificar" on one entry
Reclassificar(e, lista) ==
    IF ~CondicaoFrancesinha(e) THEN e
    ELSE IF SacadoTemp(e) \in NomesClientesPjLimitados(lista)
      THEN [e EXCEPT !.credito = "13709", !.historico = "78"]
    ELSE [e EXCEPT !.credito = "10550", !.historico = "78"]

\* main.py: nomes_pj and the two masks of interface_gradio
NomesPj(lista) == {Prefix(Upper(lista[k]), 40) : k \in 1..Len(lista)}
ReclassificarGradio(e, lista) ==
    IF e.origem # FRANCESINHA THEN e
    ELSE IF Prefix(Upper(Strip(Remove(e.complemento, C_HIFEN))), 40) \in NomesPj(lista)
      THEN [e EXCEPT !.credito = "13709", !.historico = "78"]
    ELSE [e EXCEPT !.credito = "10550", !.historico = "78"]

ELETRIC_ME == <<"E","L","E","T","R","I","C"," ","-"," ","M","E">>
SANTA_LUZIA == <<"C","O","M","E","R","C","I","A","L"," ","D","E"," ","A","L","I","M","E","N","T","O","S"," ","S","A","N","T","A"," ","L","U","Z","I","A"," ","D","O"," ","N","O","R","T","E"," ","L","T","D","A">>
\* The entries of the monolith: of a statement row, of titles of the files
\* francesinha_jan, FRANCESINHA 02 and cobranca_fev, of titles with a long
\* payer name and with a payer name that holds 'C -', and of an interest row
ReviewXls ==
    << Titulo(ACME, <<"0","5","/","0","1","/","2","0","2","4">>, 10000, 1500, 0),
       [Titulo(JOAO, <<"0","5","/","0","1","/","2","0","2","4">>, 3000, 0, 0)
           EXCEPT !.Arquivo_Origem = <<"F","R","A","N","C","E","S","I","N","H","A"," ","0","2">>],
       [Titulo(JOAO, <<"0","5","/","0","1","/","2","0","2","4">>, 6000, 0, 0)
           EXCEPT !.Arquivo_Origem = COBRANCA_FEV],
       Titulo(SANTA_LUZIA, <<"0","5","/","0","1","/","2","0","2","4">>, 7000, 0, 0),
       Titulo(ELETRIC_ME, <<"0","5","/","0","1","/","2","0","2","4">>, 8000, 0, 0) >>
ReviewEntries == Range(ConcatConciliacao(SaveOfx, GerarFrancesinhaCompleta(ReviewXls)))
\* main.py, processar_conciliacao: the entry of a Francesinha row and of a
\* statement row
EntryGradio(sacado) ==
    [ debito |-> "", credito |-> "", historico |-> "",
      data |-> <<"0","5","/","0","1","/","2","0","2","4">>, valor |-> Format2f(10000),
      complemento |-> PREFIX_C \o Prefix(sacado, 40), origem |-> FRANCESINHA ]
GradioEntries ==
    { EntryGradio(ACME), EntryGradio(JOAO), EntryGradio(SANTA_LUZIA), EntryGradio(ELETRIC_ME),
      [EntryGradio(ACME) EXCEPT !.complemento = KW_TARIFA_COBRANCA, !.origem = EXTRATO_OFX] }
\* The names of the uploaded list, one per line
ClientesPj == { <<"A","c","m","e"," ","L","t","d","a">>, JOAO, SANTA_LUZIA, ELETRIC_ME }
ListasPj == SeqsUpTo(ClientesPj, 2)

NoOp == [op |-> "", i |-> 0, coluna |-> ""]
ReviewIdle ==
    /\ rApp = "" /\ rDf = <<>> /\ rBase = <<>> /\ rLista = <<>> /\ rOp = NoOp
    /\ editing_enabled = FALSE /\ rPassos = 0
InitReview ==
    /\ \/ rApp = "monolito" /\ rDf \in SeqsUpTo(ReviewEntries, MaxRevisao)
       \/ rApp = "gradio" /\ rDf \in SeqsUpTo(GradioEntries, MaxRevisao)
    /\ rDf # <<>>
    /\ rBase = rDf /\ rLista = <<>> /\ rOp = NoOp
    /\ editing_enabled = FALSE /\ rPassos = 0

ReviewFrame ==
    UNCHANGED <<rApp, rBase, cascadeVars, keyVars, applyVars, ruleVars,
                buildVars, moraVars, dbVars, classVars, confirmVars, lockVars>>

\* "Aplicar Lista de Clientes e Reclassificar" of the monolith
AplicarListaClientes(lista) ==
    /\ rApp = "monolito" /\ rPassos < MaxPassos
    /\ rDf' = [i \in 1..Len(rDf) |-> Reclassificar(rDf[i], lista)]
    /\ rLista' = lista
    /\ rOp' = [NoOp EXCEPT !.op = "lista"]
    /\ rPassos' = rPassos + 1
    /\ UNCHANGED editing_enabled
    /\ ReviewFrame

\* interface_gradio with a file of PJ clients
InterfaceGradio(lista) ==
    /\ rApp = "gradio" /\ rPassos < MaxPassos
    /\ rDf' = [i \in 1..Len(rDf) |-> ReclassificarGradio(rDf[i], lista)]
    /\ rLista' = lista
    /\ rOp' = [NoOp EXCEPT !.op = "lista"]
    /\ rPassos' = rPassos + 1
    /\ UNCHANGED editing_enabled
    /\ ReviewFrame

\* The columns of st.data_editor without disabled=True in column_config
ColunasEditaveis == {"selecionar", "debito", "credito", "historico", "data"}
ValoresDe(coluna) ==
    IF coluna = "selecionar" THEN {TRUE, FALSE}
    ELSE IF coluna = "data" THEN {<<"0","6","/","0","1","/","2","0","2","4">>}
    ELSE {"13709"}
SetColuna(e, coluna, v) ==
    IF coluna = "selecionar" THEN [e EXCEPT !.selecionar = v]
    ELSE IF coluna = "data" THEN [e EXCEPT !.data = v]
    ELSE SetCampo(e, coluna, v)
\* The operator edits a cell of the data editor, and
\* st.session_state['df_conciliacao'].update(edited_df) stores it
DataEditor(i, coluna, v) ==
    /\ rApp = "monolito" /\ rPassos < MaxPassos
    /\ i \in 1..Len(rDf)
    /\ SetColuna(rDf[i], coluna, v) # rDf[i]
    /\ rDf' = [rDf EXCEPT ![i] = SetColuna(@, coluna, v)]
    /\ rOp' = [op |-> "editor", i |-> i, coluna |-> coluna]
    /\ rPassos' = rPassos + 1
    /\ editing_enabled' =
          IF \A k \in 1..Len(rDf') : ~rDf'[k].selecionar THEN FALSE ELSE editing_enabled
    /\ UNCHANGED rLista
    /\ ReviewFrame

\* "Habilitar Edição em Lote"
HabilitarEdicaoEmLote ==
    /\ rApp = "monolito"
    /\ \E k \in 1..Len(rDf) : rDf[k].selecionar
    /\ ~editing_enabled
    /\ editing_enabled' = TRUE
    /\ rOp' = [NoOp EXCEPT !.op = "habilitar"]
    /\ UNCHANGED <<rDf, rLista, rPassos>>
    /\ ReviewFrame

\* "Aplicar aos Selecionados" (BatchEditor._apply_changes): a field left
\* empty is not applied
AplicarAosSelecionados(novo_debito, novo_credito, novo_historico) ==
    /\ rApp = "monolito"
    /\ editing_enabled
    /\ \E k \in 1..Len(rDf) : rDf[k].selecionar
    /\ rDf' = [k \in 1..Len(rDf) |->
                 IF rDf[k].selecionar
                   THEN [rDf[k] EXCEPT
                           !.debito = IF novo_debito # "" THEN novo_debito ELSE @,
                           !.credito = IF novo_credito # "" THEN novo_credito ELSE @,
                           !.historico = IF novo_historico # "" THEN novo_historico ELSE @,
                           !.selecionar = FALSE]
                   ELSE rDf[k]]
    /\ editing_enabled' = FALSE
    /\ rOp' = [NoOp EXCEPT !.op = "lote"]
    /\ UNCHANGED <<rLista, rPassos>>
    /\ ReviewFrame

\* "Cancelar"
CancelarEdicaoEmLote ==
    /\ rApp = "monolito"
    /\ editing_enabled
    /\ \E k \in 1..Len(rDf) : rDf[k].selecionar
    /\ editing_enabled' = FALSE
    /\ rOp' = [NoOp EXCEPT !.op = "cancelar"]
    /\ UNCHANGED <<rDf, rLista, rPassos>>
    /\ ReviewFrame

-----------------------------------------------------------------------------
(* Specification SpecConfirm: processing statement files, confirming the   *)
(* overwrite of stored files and saving them, for one active company       *)

MaxImportacoes == 2

ArquivosOfx == {"extrato_jan.ofx", "extrato_fev.ofx"}
LinhaOfx(arquivo, importacao_id) ==
    [arquivo_origem |-> arquivo, importacao_id |-> importacao_id]

\* TransactionRepository.check_existing_files / verificar_arquivos_existentes:
\* the files of the dataset that have rows in the table
CheckExistingFiles(tabela, df) ==
    {f \in df : \E r \in tabela : r.arquivo_origem = f}
\* save_imported_data / salvar_dados_importados, committed: the rows of the
\* files being saved are deleted and the rows of the dataset appended
SaveImportedData(tabela, df, importacao_id) ==
    {r \in tabela : r.arquivo_origem \notin df}
        \cup {LinhaOfx(f, importacao_id) : f \in df}

NoKOp == [op |-> "", ok |-> TRUE]
ConfirmIdle ==
    /\ kApp = "" /\ transacoes_ofx = {} /\ kImportacoes = 0
    /\ df_extratos_final = {} /\ ofx_overwrite_confirmed = FALSE
    /\ kConfirmado = {} /\ kOp = NoKOp
InitConfirm ==
    /\ kApp \in {"refatorado", "monolito"}
    /\ transacoes_ofx \in {{LinhaOfx(f, 0) : f \in S} : S \in SUBSET ArquivosOfx}
    /\ kImportacoes = 0
    /\ df_extratos_final = {}
    /\ ofx_overwrite_confirmed = FALSE
    /\ kConfirmado = {} /\ kOp = NoKOp

ConfirmFrame ==
    UNCHANGED <<kApp, cascadeVars, keyVars, applyVars, ruleVars,
                buildVars, moraVars, dbVars, classVars, reviewVars, lockVars>>

\* "Processar OFX": the dataset of the uploaded files replaces the loaded one
ProcessarOfx(arquivos_ofx) ==
    /\ arquivos_ofx # {}
    /\ df_extratos_final' = arquivos_ofx
    /\ kOp' = [op |-> "processar", ok |-> TRUE]
    /\ UNCHANGED <<transacoes_ofx, kImportacoes, ofx_overwrite_confirmed, kConfirmado>>
    /\ ConfirmFrame

\* "Confirmar e Sobrescrever" of SaveButton.render and "Confirmar e
\* Sobrescrever OFX" of the monolith
ConfirmarESobrescrever ==
    /\ df_extratos_final # {}
    /\ CheckExistingFiles(transacoes_ofx, df_extratos_final) # {}
    /\ ~ofx_overwrite_confirmed
    /\ ofx_overwrite_confirmed' = TRUE
    /\ kConfirmado' = df_extratos_final
    /\ kOp' = [op |-> "confirmar", ok |-> TRUE]
    /\ UNCHANGED <<transacoes_ofx, kImportacoes, df_extratos_final>>
    /\ ConfirmFrame

SaveShown ==
    /\ df_extratos_final # {}
    /\ ~(CheckExistingFiles(transacoes_ofx, df_extratos_final) # {}
            /\ ~ofx_overwrite_confirmed)
    /\ kImportacoes < MaxImportacoes

\* SaveButton.render, the save button: the flag is reset when on_save
\* returns True and kept when the save failed
SaveButtonRender(ok) ==
    /\ kApp = "refatorado"
    /\ SaveShown
    /\ IF ok
         THEN /\ transacoes_ofx' =
                   SaveImportedData(transacoes_ofx, df_extratos_final, kImportacoes + 1)
              /\ kImportacoes' = kImportacoes + 1
              /\ ofx_overwrite_confirmed' = FALSE
              /\ kConfirmado' = {}
         ELSE UNCHANGED <<transacoes_ofx, kImportacoes, ofx_overwrite_confirmed, kConfirmado>>
    /\ kOp' = [op |-> "salvar", ok |-> ok]
    /\ UNCHANGED df_extratos_final
    /\ ConfirmFrame

\* "Salvar Extratos OFX no Banco de Dados" of the monolith: the flag is
\* reset after salvar_dados_importados whatever it returned
SalvarExtratosOfx(ok) ==
    /\ kApp = "monolito"
    /\ SaveShown
    /\ IF ok
         THEN /\ transacoes_ofx' =
                   SaveImportedData(transacoes_ofx, df_extratos_final, kImportacoes + 1)
              /\ kImportacoes' = kImportacoes + 1
              /\ kConfirmado' = {}
         ELSE UNCHANGED <<transacoes_ofx, kImportacoes, kConfirmado>>
    /\ ofx_overwrite_confirmed' = FALSE
    /\ kOp' = [op |-> "salvar", ok |-> ok]
    /\ UNCHANGED df_extratos_final
    /\ ConfirmFrame

-----------------------------------------------------------------------------
(* Specification SpecLock: the reconciliation editor of app2 and its lock, *)
(* with no saved rule for the active company                               *)

LockIdle ==
    /\ lArquivos = 0 /\ lDf = <<>> /\ editor_locked = FALSE
    /\ editing_mode = FALSE /\ lEdicoes = 0 /\ lOp = ""
UiIdle == ClassIdle /\ ReviewIdle /\ ConfirmIdle /\ LockIdle
\* init_session_state: 'df_conciliacao': None, 'editor_locked': False
InitLock == LockIdle

LockFrame ==
    UNCHANGED <<cascadeVars, keyVars, applyVars, ruleVars,
                buildVars, moraVars, dbVars, classVars, reviewVars, confirmVars>>

Selecionadas(df) == {i \in 1..Len(df) : df[i].selecionar}

\* _processar_arquivos_ofx and _processar_arquivos_francesinha
ProcessarArquivosApp2(a) ==
    /\ a # lArquivos
    /\ lArquivos' = a
    /\ lOp' = "processar"
    /\ UNCHANGED <<lDf, editor_locked, editing_mode, lEdicoes>>
    /\ LockFrame

\* _render_conciliacao_section: "Iniciar Conciliação" is shown whenever
\* df_extratos_final is set, and _processar_conciliacao stores what it built
ProcessarConciliacao ==
    /\ lArquivos # 0
    /\ IF BuildRaises(DfExtratos(lArquivos), DfFrancesinhas(lArquivos))
         THEN /\ lOp' = "erro" /\ UNCHANGED lDf
         ELSE /\ lDf' = ConcatConciliacao(DfExtratos(lArquivos), DfFrancesinhas(lArquivos))
              /\ lOp' = "conciliar"
    /\ UNCHANGED <<lArquivos, editor_locked, editing_mode, lEdicoes>>
    /\ LockFrame

\* _render_editor_controls: "Bloquear Editor"
BloquearEditor ==
    /\ lDf # <<>> /\ ~editor_locked
    /\ editor_locked' = TRUE
    /\ lOp' = "bloquear"
    /\ UNCHANGED <<lArquivos, lDf, editing_mode, lEdicoes>>
    /\ LockFrame

\* _render_locked_view: "Desbloquear Editor"
DesbloquearEditor ==
    /\ lDf # <<>> /\ editor_locked
    /\ editor_locked' = FALSE
    /\ lOp' = "desbloquear"
    /\ UNCHANGED <<lArquivos, lDf, editing_mode, lEdicoes>>
    /\ LockFrame

\* _render_data_editor: "Habilitar Edição"
HabilitarEdicao ==
    /\ lDf # <<>> /\ ~editor_locked /\ ~editing_mode
    /\ editing_mode' = TRUE
    /\ lOp' = "habilitar"
    /\ UNCHANGED <<lArquivos, lDf, editor_locked, lEdicoes>>
    /\ LockFrame

\* The columns of the data editor of app2 without disabled=True
ColunasEditaveisApp2 == {"selecionar", "debito", "credito", "historico"}
\* _render_data_editor: a cell is edited and "Aplicar Mudanças" stores it
\* with df_conciliacao.update(edited_df)
AplicarMudancas(i, coluna, v) ==
    /\ lDf # <<>> /\ ~editor_locked /\ editing_mode
    /\ lEdicoes < MaxEdicoes
    /\ i \in 1..Len(lDf)
    /\ SetColuna(lDf[i], coluna, v) # lDf[i]
    /\ lDf' = [lDf EXCEPT ![i] = SetColuna(@, coluna, v)]
    /\ editing_mode' = FALSE
    /\ lEdicoes' = lEdicoes + 1
    /\ lOp' = "aplicar"
    /\ UNCHANGED <<lArquivos, editor_locked>>
    /\ LockFrame

\* _render_data_editor: "Cancelar Edição"
CancelarEdicao ==
    /\ lDf # <<>> /\ ~editor_locked /\ editing_mode
    /\ editing_mode' = FALSE
    /\ lOp' = "cancelar"
    /\ UNCHANGED <<lArquivos, lDf, editor_locked, lEdicoes>>
    /\ LockFrame

\* _render_batch_editing returns at once when the editor is locked;
\* _aplicar_edicao_lote: a field left empty is not applied
AplicarEdicaoLote(debito, credito, historico) ==
    /\ lDf # <<>> /\ ~editor_locked
    /\ Selecionadas(lDf) # {}
    /\ lDf' = [k \in 1..Len(lDf) |->
                 IF lDf[k].selecionar
                   THEN [lDf[k] EXCEPT
                           !.debito = IF debito # "" THEN debito ELSE @,
                           !.credito = IF credito # "" THEN credito ELSE @,
                           !.historico = IF historico # "" THEN historico ELSE @,
                           !.selecionar = FALSE]
                   ELSE lDf[k]]
    /\ lOp' = "lote"
    /\ UNCHANGED <<lArquivos, editor_locked, editing_mode, lEdicoes>>
    /\ LockFrame

\* _render_batch_editing: "Limpar Seleção"
LimparSelecao ==
    /\ lDf # <<>> /\ ~editor_locked
    /\ Selecionadas(lDf) # {}
    /\ lDf' = [k \in 1..Len(lDf) |-> [lDf[k] EXCEPT !.selecionar = FALSE]]
    /\ lOp' = "limpar"
    /\ UNCHANGED <<lArquivos, editor_locked, editing_mode, lEdicoes>>
    /\ LockFrame

-----------------------------------------------------------------------------
(* The specifications                                                      *)

Init == CascadeIdle /\ KeyIdle /\ ApplyIdle /\ RulesIdle /\ BuildIdle /\ MoraIdle /\ SaveIdle /\ UiIdle
Next ==
    \/ \E e \in Empresas : SelecionarEmpresa(e)
    \/ \E a \in 1..Len(Catalogo) : ProcessarArquivos(a)
    \/ IniciarConciliacao
    \/ ProcessReconciliation
    \/ \E e \in Empresas : ExpirarCache(e)
    \/ \E i \in 1..Len(df_conciliacao), campo \in Campos, v \in EditCodes :
          EditarCelula(i, campo, v)
    \/ SalvarConciliacaoFinal
    \/ SaveReconciliation
Spec == Init /\ [][Next]_vars

NextCascade == Calculate \/ Recase
InitSpecCascade == InitCascade /\ KeyIdle /\ ApplyIdle /\ RulesIdle /\ BuildIdle /\ MoraIdle /\ SaveIdle /\ UiIdle
SpecCascade == InitSpecCascade /\ [][NextCascade]_vars

NextKey == MakeKey \/ EditAndRekey
InitSpecKey == CascadeIdle /\ InitKey /\ ApplyIdle /\ RulesIdle /\ BuildIdle /\ MoraIdle /\ SaveIdle /\ UiIdle
SpecKey == InitSpecKey /\ [][NextKey]_vars

NextBuild == CreateReconciliationDataset \/ IniciarConciliacaoSemEmpresa
InitSpecBuild == CascadeIdle /\ KeyIdle /\ ApplyIdle /\ RulesIdle /\ InitBuild /\ MoraIdle /\ SaveIdle /\ UiIdle
SpecBuild == InitSpecBuild /\ [][NextBuild]_vars

NextMora ==
    \/ \E u \in Uploads : GerarFrancesinha(u)
    \/ \E u \in Uploads : ProcessFrancesinhaFiles(u)
InitSpecMora == CascadeIdle /\ KeyIdle /\ ApplyIdle /\ RulesIdle /\ BuildIdle /\ InitMora /\ SaveIdle /\ UiIdle
SpecMora == InitSpecMora /\ [][NextMora]_vars

NextSave ==
    \/ \E falha \in Falhas : SalvarConciliacaoFinalTx(falha)
    \/ \E falha \in Falhas : SaveReconciliationTx(falha)
InitSpecSave == CascadeIdle /\ KeyIdle /\ ApplyIdle /\ RulesIdle /\ BuildIdle /\ MoraIdle /\ InitSave /\ UiIdle
SpecSave == InitSpecSave /\ [][NextSave]_vars

NextClassify ==
    \/ \E n \in Nomes : ClassifyOne(n)
    \/ ClassifyList
BaseIdle ==
    CascadeIdle /\ KeyIdle /\ ApplyIdle /\ RulesIdle /\ BuildIdle /\ MoraIdle /\ SaveIdle
InitSpecClassify == BaseIdle /\ InitClassify /\ ReviewIdle /\ ConfirmIdle /\ LockIdle
SpecClassify == InitSpecClassify /\ [][NextClassify]_vars

NextReview ==
    \/ \E lista \in ListasPj : AplicarListaClientes(lista)
    \/ \E lista \in ListasPj : InterfaceGradio(lista)
    \/ \E i \in 1..MaxRevisao, coluna \in ColunasEditaveis :
          \E v \in ValoresDe(coluna) : DataEditor(i, coluna, v)
    \/ HabilitarEdicaoEmLote
    \/ \E d \in {"", "52877"}, c \in {"", "10550"}, h \in {"", "78"} :
          AplicarAosSelecionados(d, c, h)
    \/ CancelarEdicaoEmLote
InitSpecReview == BaseIdle /\ ClassIdle /\ InitReview /\ ConfirmIdle /\ LockIdle
SpecReview == InitSpecReview /\ [][NextReview]_vars

NextConfirm ==
    \/ \E arquivos_ofx \in SUBSET ArquivosOfx : ProcessarOfx(arquivos_ofx)
    \/ ConfirmarESobrescrever
    \/ \E ok \in BOOLEAN : SaveButtonRender(ok)
    \/ \E ok \in BOOLEAN : SalvarExtratosOfx(ok)
InitSpecConfirm == BaseIdle /\ ClassIdle /\ ReviewIdle /\ InitConfirm /\ LockIdle
SpecConfirm == InitSpecConfirm /\ [][NextConfirm]_vars

NextLock ==
    \/ \E a \in 1..Len(Catalogo) : ProcessarArquivosApp2(a)
    \/ ProcessarConciliacao
    \/ BloquearEditor
    \/ DesbloquearEditor
    \/ HabilitarEdicao
    \/ \E i \in 1..MaxLinhas, coluna \in ColunasEditaveisApp2 :
          \E v \in ValoresDe(coluna) : AplicarMudancas(i, coluna, v)
    \/ CancelarEdicao
    \/ \E d \in {"", "52877"}, c \in {"", "10550"}, h \in {"", "78"} :
          AplicarEdicaoLote(d, c, h)
    \/ LimparSelecao
InitSpecLock == BaseIdle /\ ClassIdle /\ ReviewIdle /\ ConfirmIdle /\ InitLock
SpecLock == InitSpecLock /\ [][NextLock]_vars

NextApply == Apply \/ ApplyAgain
InitSpecApply == CascadeIdle /\ KeyIdle /\ InitApply /\ RulesIdle /\ BuildIdle /\ MoraIdle /\ SaveIdle /\ UiIdle
SpecApply == InitSpecApply /\ [][NextApply]_vars

-----------------------------------------------------------------------------
(* Properties of the cascade, under SpecCascade                            *)

Calculated == phase \in {"done", "recased"}

\* The code of the first pair of an ordered list of <<matches, code>> pairs
\* whose rule matches, '' when none does
RECURSIVE FirstMatch(_)
FirstMatch(pairs) ==
    IF pairs = <<>> THEN ""
    ELSE IF Head(pairs)[1] THEN Head(pairs)[2]
    ELSE FirstMatch(Tail(pairs))

DebitReferenceOrder(r) ==
    LET memo  == Upper(Strip(r.memo))
        payee == Upper(Strip(r.payee))
    IN  << <<Contains(memo, KW_TARIFA_COBRANCA), "52877">>,
           <<Contains(memo, KW_TARIFA_ENVIO_PIX), "52878">>,
           <<Contains(memo, KW_DEBITO_PACOTE_SERVICOS), "52914">>,
           <<Contains(memo, KW_DEB_PARCELAS), "84618">>,
           <<Contains(payee, KW_UNIMED), "23921">>,
           <<Contains(payee, KW_CEDULA_DE_PRESENCA), "26186">>,
           <<Contains(memo, KW_SALARIO), "20817">>,
           <<Contains(memo, KW_AGUA_E_ESGOTO), "52197">> >>
CreditReferenceOrder(r) ==
    << <<Contains(r.memo, KW_CR_COMPRAS), "15254">>,
       <<ReSearch(RE_MASKED_TAX_ID, r.payee), "10550">>,
       <<ReSearch(RE_FORMATTED_TAX_ID, r.payee), "13709">> >>

\* C8: in every implementation of the cascade, the debit code of a DEBIT row
\* and the credit code of a CREDIT row are the code of the first matching
\* rule in the reference order, and '' when no rule matches
C8_FirstMatchInReferenceOrder ==
    Calculated =>
        /\ TransactionType(row) = TIPO_DEBIT =>
              /\ codes.debit = FirstMatch(DebitReferenceOrder(row))
              /\ codes.debit_app2 = FirstMatch(DebitReferenceOrder(row))
        /\ TransactionType(row) = TIPO_CREDIT =>
              codes.credit = FirstMatch(CreditReferenceOrder(row))

\* C9: the cascade gives a DEBIT row no credit code and a CREDIT row no debit
\* code, whatever its memo and payee are
C9_OneSided ==
    Calculated =>
        /\ TransactionType(row) = TIPO_DEBIT => codes.credit = ""
        /\ TransactionType(row) = TIPO_CREDIT =>
              codes.debit = "" /\ codes.debit_app2 = ""
\* A DEBIT row whose memo is a debit keyword and whose payee is a masked tax
\* id has been through the cascade
C9_Witness ==
    /\ phase = "done"
    /\ TransactionType(row) = TIPO_DEBIT
    /\ ReSearch(RE_MASKED_TAX_ID, row.payee)
    /\ codes.debit = "52877"
    /\ codes.credit = ""

\* C10: the debit, credit and history codes of a row do not change when only
\* the letter case of its memo and payee changes
C10_CaseNormalized ==
    phase = "recased" =>
        /\ codes.debit = prevCodes.debit
        /\ codes.credit = prevCodes.credit
        /\ codes.history = prevCodes.history

-----------------------------------------------------------------------------
(* Properties of the rule key, under SpecKey                               *)

Keyed == kPhase \in {"keyed", "edited"}

\* The text before the first '|' of s, all of s when it has none
BeforeFirstPipe(s) ==
    IF \E i \in 1..Len(s) : s[i] = "|"
      THEN SubSeq(s, 1, (CHOOSE i \in 1..Len(s) :
                            s[i] = "|" /\ \A j \in 1..(i - 1) : s[j] # "|") - 1)
      ELSE s
HasMarker(origem) ==
    \/ Contains(Lower(origem), KEY_JUROS_DE_MORA)
    \/ Contains(Lower(origem), KEY_FRANCESINHA)

\* The key by the letter of the rule: the first two segments as they stand
\* between the pipes, joined by " | "
KeyOfSegmentsJoined(complemento, origem) ==
    LET parts == SplitPipe(complemento)
    IN  IF HasMarker(origem) THEN Strip(BeforeFirstPipe(complemento))
        ELSE IF Len(parts) > 2 THEN parts[1] \o SEP \o parts[2]
        ELSE Strip(complemento)
\* The key with each of the two segments trimmed before they are joined
KeyOfTrimmedSegments(complemento, origem) ==
    LET parts == SplitPipe(complemento)
    IN  IF HasMarker(origem) THEN Strip(BeforeFirstPipe(complemento))
        ELSE IF Len(parts) > 2 THEN Strip(parts[1]) \o SEP \o Strip(parts[2])
        ELSE Strip(complemento)

\* C5 as stated: the key is a function of (origin, complement) only: the
\* trimmed text before the first '|' for an interest or francesinha origin,
\* else the first two segments joined by " | " when there are more than two
\* segments, else the trimmed complement; an edit of debit, credit or history
\* leaves it as it was
C5_KeyAsStated ==
    /\ Keyed => kKey = KeyOfSegmentsJoined(kEntry.complemento, kEntry.origem)
    /\ kPhase = "edited" => kKey = kPrevKey

\* C5 amended: as C5, with each of the first two segments trimmed before they
\* are joined by " | "
C5_KeyOfTrimmedSegments ==
    /\ Keyed => kKey = KeyOfTrimmedSegments(kEntry.complemento, kEntry.origem)
    /\ kPhase = "edited" => kKey = kPrevKey
\* An OFX entry of more than two segments, whose segments carry blanks, has
\* been keyed, edited and keyed again
C5_Witness ==
    /\ kPhase = "edited"
    /\ ~HasMarker(kEntry.origem)
    /\ Len(SplitPipe(kEntry.complemento)) > 2
    /\ kKey # KeyOfSegmentsJoined(kEntry.complemento, kEntry.origem)
    /\ kKey = kPrevKey
    /\ kEntry.debito # ""

-----------------------------------------------------------------------------
(* Properties of apply_saved_rules, under SpecApply                        *)

Applied == aPhase \in {"applied", "again"}
RuleHash(e) == GenerateHash(CreateRuleKey(e))
HasRule(e, rules) == RuleHash(e) \in DOMAIN rules
SavedOrKept(saved, current) == IF saved # "" THEN saved ELSE current
SameFrame(o, e) ==
    /\ o.data = e.data /\ o.valor = e.valor /\ o.complemento = e.complemento
    /\ o.origem = e.origem /\ o.selecionar = e.selecionar

\* C2: apply_saved_rules returns as many entries in the same order; an entry
\* whose rule hash has a saved rule gets each of debit, credit and history
\* from the rule where the saved field is non-empty and keeps its own value
\* where it is empty; an entry without a saved rule is unchanged; date,
\* amount, complement, origin and selection flag of every entry are unchanged
C2_ApplyRulesPostcondition ==
    Applied =>
        /\ Len(aOut) = Len(aDf)
        /\ \A i \in 1..Len(aDf) :
              /\ SameFrame(aOut[i], aDf[i])
              /\ IF HasRule(aDf[i], aRules)
                    THEN LET rule == aRules[RuleHash(aDf[i])]
                         IN  /\ aOut[i].debito = SavedOrKept(rule.debito, aDf[i].debito)
                             /\ aOut[i].credito = SavedOrKept(rule.credito, aDf[i].credito)
                             /\ aOut[i].historico =
                                    SavedOrKept(rule.historico, aDf[i].historico)
                    ELSE aOut[i] = aDf[i]
\* A dataset of an entry whose rule saves another debit and no credit, and of
\* an entry without a rule, has been through apply_saved_rules
C2_Witness ==
    /\ aPhase = "applied"
    /\ Len(aDf) = 2
    /\ HasRule(aDf[1], aRules)
    /\ aRules[RuleHash(aDf[1])].debito \notin {"", aDf[1].debito}
    /\ aRules[RuleHash(aDf[1])].credito = ""
    /\ aDf[1].credito # ""
    /\ aOut[1].debito = aRules[RuleHash(aDf[1])].debito
    /\ aOut[1].credito = aDf[1].credito
    /\ ~HasRule(aDf[2], aRules)
    /\ aDf[2].debito # ""
    /\ aOut[2] = aDf[2]

\* C3: apply_saved_rules given its own result and the same rules returns
\* that result
C3_ApplyRulesIdempotent ==
    aPhase = "again" => aOut2 = aOut
\* A dataset that its rules changed has been through apply_saved_rules twice
C3_Witness ==
    /\ aPhase = "again"
    /\ \E i \in 1..Len(aDf) :
          /\ HasRule(aDf[i], aRules)
          /\ aOut[i].debito # aDf[i].debito
          /\ aOut[i].credito # aDf[i].credito
    /\ aOut2 = aOut

-----------------------------------------------------------------------------
(* Properties of rule persistence and replay, under Spec                   *)

IsEmpty(cell) == cell \in {"", NaN}
Qualifies(e) == e.complemento # <<>> /\ (~IsEmpty(e.debito) \/ ~IsEmpty(e.credito))
\* An entry that has a debit or a credit, and no cell without a value
Complete(e) ==
    Qualifies(e) /\ NaN \notin {e.debito, e.credito, e.historico}
BuiltBy(app, a) ==
    IF app = "monolito" THEN ConcatConciliacao(DfExtratos(a), DfFrancesinhas(a))
    ELSE BuildDataset(DfExtratos(a), DfFrancesinhas(a))
SameCodes(a, b) ==
    a.debito = b.debito /\ a.credito = b.credito /\ a.historico = b.historico
Saved == ultimo.op = "salvar" /\ ultimo.app = "monolito"
RanNow == ultimo'.op = "conciliar" /\ df_conciliacao' # <<>>

\* C1: when a dataset has been saved for the active company and a run then
\* builds from the same inputs and replays the company's saved rules, every
\* entry that had a complement and a debit or a credit in the saved dataset
\* gets the debit, credit and history it had there
C1_SaveThenReplay ==
    [][ ( /\ Saved
          /\ RanNow /\ ultimo'.app = "monolito"
          /\ arquivos = base
          /\ ~cache[empresa_ativa].valido )
        => \A i \in 1..Len(df_conciliacao) :
              Qualifies(df_conciliacao[i])
                  => SameCodes(df_conciliacao'[i], df_conciliacao[i]) ]_vars

\* C4: after a run for a company, every entry whose key has a rule of that
\* company in the table carries that rule's saved debit, credit and history:
\* no run works from a rule set older than the table or leaves the rules out
C4_RunUsesCommittedRules ==
    (ultimo.op = "conciliar" /\ empresa_ativa # 0) =>
        LET built == BuiltBy(ultimo.app, base)
        IN  \A i \in 1..Len(df_conciliacao) :
              \A r \in regras :
                  ( /\ r.empresa_id = empresa_ativa
                    /\ r.complemento_hash = RuleHash(df_conciliacao[i]) )
                  => /\ df_conciliacao[i].debito = SavedOrKept(r.debito, built[i].debito)
                     /\ df_conciliacao[i].credito = SavedOrKept(r.credito, built[i].credito)
                     /\ df_conciliacao[i].historico =
                            SavedOrKept(r.historico, built[i].historico)

\* C6: every rule a save writes is the rule of an entry of the saved dataset
\* that has a complement and a debit or a credit, under a hash that is not
\* null; nothing but a committed save writes a rule
C6_RulesOnlyForQualifyingEntries ==
    [][ /\ \A r \in regras' \ regras :
              /\ salvamentos' # salvamentos
              /\ r.empresa_id = empresa_ativa
              /\ r.complemento_hash # None
              /\ \E i \in 1..Len(df_conciliacao) :
                    /\ Qualifies(df_conciliacao[i])
                    /\ r.complemento_hash = RuleHash(df_conciliacao[i])
                    /\ r.complemento_texto = df_conciliacao[i].complemento
                    /\ SameCodes(r, df_conciliacao[i]) ]_vars
\* A dataset has been saved in which one entry has a debit or a credit and a
\* rule, and another has neither and no rule
C6_Witness ==
    /\ Saved
    /\ \E i, j \in 1..Len(df_conciliacao) :
          /\ Qualifies(df_conciliacao[i])
          /\ \E r \in regras : /\ r.empresa_id = empresa_ativa
                                /\ r.complemento_hash = RuleHash(df_conciliacao[i])
          /\ ~Qualifies(df_conciliacao[j])
          /\ \A r \in regras : r.empresa_id = empresa_ativa
                                => r.complemento_hash # RuleHash(df_conciliacao[j])

\* The last entry of df with the hash h among those a save takes a rule from
LastQualifying(df, h) ==
    df[CHOOSE i \in 1..Len(df) :
          /\ Complete(df[i]) /\ RuleHash(df[i]) = h
          /\ \A j \in (i + 1)..Len(df) : ~(Complete(df[j]) /\ RuleHash(df[j]) = h)]
SavedHashes(df) == {RuleHash(df[i]) : i \in {j \in 1..Len(df) : Complete(df[j])}}

-----------------------------------------------------------------------------
(* Properties of the build, under SpecBuild                                *)

Built == bPhase # "input" /\ ~bRes.raised
SettlementIdx(df_ofx) == {i \in 1..Len(df_ofx) : df_ofx[i].memo = MARKER_LIQUIDACAO}
CalendarDate(d) == <<d.dia, d.mes, d.ano>>
SettlementIdxOn(df_ofx, dma) ==
    {i \in SettlementIdx(df_ofx) : CalendarDate(df_ofx[i].data) = dma}
RECURSIVE SumValorAt(_, _)
SumValorAt(df_ofx, I) ==
    IF I = {} THEN 0
    ELSE LET i == CHOOSE j \in I : TRUE
         IN  df_ofx[i].valor + SumValorAt(df_ofx, I \ {i})
RECURSIVE SumValues(_, _)
SumValues(f, K) ==
    IF K = {} THEN 0
    ELSE LET k == CHOOSE j \in K : TRUE IN f[k] + SumValues(f, K \ {k})

\* C11: the per-date totals of the settlement rows add up to the sum of the
\* amounts of all OFX rows whose memo is the settlement marker; every
\* settlement row's day has one total, and the total of a day is the sum of
\* the settlement rows of that calendar day, whatever their time of day
C11_AggregationConservesTotal ==
    (bPhase # "input" /\ bRes.agregou) =>
        LET agg == bRes.liquidations_agg
        IN  /\ SumValues(agg, DOMAIN agg) = SumValorAt(bOfx, SettlementIdx(bOfx))
            /\ \A i \in SettlementIdx(bOfx) :
                  \E d \in DOMAIN agg : CalendarDate(d) = CalendarDate(bOfx[i].data)
            /\ \A d1, d2 \in DOMAIN agg :
                  CalendarDate(d1) = CalendarDate(d2) => d1 = d2
            /\ \A d \in DOMAIN agg :
                  agg[d] = SumValorAt(bOfx, SettlementIdxOn(bOfx, CalendarDate(d)))
\* The totals have been taken of three settlement rows, two of them of one
\* day at different hours
C11_Witness ==
    /\ bPhase # "input" /\ bRes.agregou
    /\ Cardinality(SettlementIdx(bOfx)) = 3
    /\ Cardinality(DOMAIN bRes.liquidations_agg) = 2
    /\ \E i, j \in SettlementIdx(bOfx) :
          /\ i # j
          /\ CalendarDate(bOfx[i].data) = CalendarDate(bOfx[j].data)
          /\ bOfx[i].data.hora # bOfx[j].data.hora
          /\ \E d \in DOMAIN bRes.liquidations_agg :
                bRes.liquidations_agg[d] = bOfx[i].valor + bOfx[j].valor

\* The positions in df_ofx of the rows that are no settlement row, in order
RECURSIVE OtherIdx(_, _)
OtherIdx(df_ofx, i) ==
    IF i > Len(df_ofx) THEN <<>>
    ELSE (IF df_ofx[i].memo = MARKER_LIQUIDACAO THEN <<>> ELSE <<i>>)
            \o OtherIdx(df_ofx, i + 1)
OfxOrigin(e) == \E i \in 1..Len(bOfx) : e.origem = bOfx[i].arquivo_origem
OfxEntriesOf(df) == SelectSeq(df, OfxOrigin)

\* C12: a build gives no entry to an OFX row whose memo is the settlement
\* marker: its OFX entries are, in order, those of the other rows, each with
\* the date, amount and memo of its row, and none carries the marker as memo
C12_SettlementRowsGetNoEntry ==
    Built =>
        LET entries == OfxEntriesOf(bRes.df)
            others  == OtherIdx(bOfx, 1)
        IN  /\ Len(entries) = Len(others)
            /\ \A k \in 1..Len(entries) :
                  LET r == bOfx[others[k]]
                  IN  /\ entries[k].data = FormatData(r.data)
                      /\ entries[k].valor = Format2f(Abs(r.valor))
                      /\ Contains(entries[k].complemento, r.memo)
                      /\ entries[k].debito = CalculateDebit(r)
                      /\ entries[k].credito = CalculateCredit(r)
            /\ \A k \in 1..Len(entries) :
                  ~Contains(entries[k].complemento, MARKER_LIQUIDACAO)
\* A build of a statement with a settlement row between two other rows has
\* given its two OFX entries
C12_Witness ==
    /\ Built
    /\ Len(bOfx) = 3
    /\ bOfx[1].memo # MARKER_LIQUIDACAO
    /\ bOfx[2].memo = MARKER_LIQUIDACAO
    /\ bOfx[3].memo # MARKER_LIQUIDACAO
    /\ bFran # <<>>
    /\ Len(OfxEntriesOf(bRes.df)) = 2
    /\ Len(bRes.df) > 2

FrancesinhaEntriesOf(df) == LET Outra(e) == ~OfxOrigin(e) IN SelectSeq(df, Outra)
\* The second segment of a Francesinha complement: the settlement total
TotalSegment(e) == Strip(SplitPipe(e.complemento)[2])

\* C13: with no settlement row among the OFX rows, and with no OFX row at
\* all, the build completes, no date total is taken and the complement of
\* every Francesinha entry carries 'N/A' as its settlement total
C13_NoSettlementRowsGivesNA ==
    (bPhase # "input" /\ SettlementIdx(bOfx) = {} /\ ~SemValor(bFran)) =>
        /\ ~bRes.raised
        /\ DOMAIN bRes.liquidations_agg = {}
        /\ Len(FrancesinhaEntriesOf(bRes.df)) = Len(bFran)
        /\ \A k \in 1..Len(FrancesinhaEntriesOf(bRes.df)) :
              TotalSegment(FrancesinhaEntriesOf(bRes.df)[k]) = NA

\* C14: the total segment of the complement of the entry of a Francesinha
\* row settled on day d is the formatted sum of the amounts of all OFX
\* settlement rows of day d when there is one, and 'N/A' when there is none;
\* a principal entry and its interest entry carry the same total
C14_TotalSegmentIsDateTotal ==
    Built =>
        LET entries == FrancesinhaEntriesOf(bRes.df)
        IN  /\ Len(entries) = Len(bFran)
            /\ \A k \in 1..Len(entries) :
                  LET I == SettlementIdxOn(bOfx, CalendarDate(ToDatetime(bFran[k].Dt_Liquid)))
                  IN  TotalSegment(entries[k]) =
                          IF I # {} THEN Format2f(SumValorAt(bOfx, I)) ELSE NA
            /\ \A k, j \in 1..Len(entries) :
                  bFran[j] = LinhaMora(bFran[k])
                      => TotalSegment(entries[j]) = TotalSegment(entries[k])
\* A build has given a principal entry and its interest entry the sum of two
\* settlement rows of their day, and another entry 'N/A'
C14_Witness ==
    /\ Built
    /\ \E i, j \in SettlementIdx(bOfx) :
          /\ i # j
          /\ \E k, m, n \in 1..Len(FrancesinhaEntriesOf(bRes.df)) :
                /\ k # m
                /\ bFran[m] = LinhaMora(bFran[k])
                /\ TotalSegment(FrancesinhaEntriesOf(bRes.df)[k])
                      = Format2f(bOfx[i].valor + bOfx[j].valor)
                /\ TotalSegment(FrancesinhaEntriesOf(bRes.df)[m])
                      = Format2f(bOfx[i].valor + bOfx[j].valor)
                /\ TotalSegment(FrancesinhaEntriesOf(bRes.df)[n]) = NA

\* C18: for every pair of inputs, either of them possibly empty, the build
\* returns one entry per OFX row that is no settlement row, in the order of
\* the rows, and after them one entry per Francesinha row, in the order of
\* the rows
C18_OneEntryPerRowInOrder ==
    (bPhase # "input" /\ ~SemValor(bFran)) =>
        LET others == OtherIdx(bOfx, 1)
            n      == Len(others)
        IN  /\ ~bRes.raised
            /\ Len(bRes.df) = n + Len(bFran)
            /\ \A k \in 1..n :
                  /\ OfxOrigin(bRes.df[k])
                  /\ bRes.df[k].data = FormatData(bOfx[others[k]].data)
                  /\ Contains(bRes.df[k].complemento, bOfx[others[k]].memo)
            /\ \A k \in 1..Len(bFran) :
                  /\ bRes.df[n + k].origem = bFran[k].Arquivo_Origem
                  /\ bRes.df[n + k].data = bFran[k].Dt_Liquid
                  /\ bRes.df[n + k].valor = Format2f(bFran[k].Valor_RS)

\* The rows of df_francesinha whose settlement date is no date, or whose
\* amount is missing
Malformed(df_francesinha) ==
    {k \in 1..Len(df_francesinha) :
        \/ ToDatetime(df_francesinha[k].Dt_Liquid) = NaT
        \/ df_francesinha[k].Valor_RS = CELULA_VAZIA}
RECURSIVE WellFormedRows(_, _)
WellFormedRows(df_francesinha, k) ==
    IF k > Len(df_francesinha) THEN <<>>
    ELSE (IF k \in Malformed(df_francesinha) THEN <<>> ELSE <<df_francesinha[k]>>)
            \o WellFormedRows(df_francesinha, k + 1)

\* C19: when a Francesinha row has a malformed settlement date or no amount,
\* the build of a statement that has settlement rows does not abort, gives
\* that row no entry, and gives every other row its entry
C19_MalformedRecordIsIsolated ==
    (bPhase # "input" /\ SettlementIdx(bOfx) # {} /\ Malformed(bFran) # {}) =>
        LET entries == FrancesinhaEntriesOf(bRes.df)
            rows    == WellFormedRows(bFran, 1)
        IN  /\ ~bRes.raised
            /\ Len(entries) = Len(rows)
            /\ \A k \in 1..Len(entries) :
                  /\ entries[k].data = rows[k].Dt_Liquid
                  /\ entries[k].valor = Format2f(rows[k].Valor_RS)

-----------------------------------------------------------------------------
(* Properties of the interest rows, under SpecMora                         *)

IsJuros(r) == r.Arquivo_Origem = JUROS_DE_MORA
Juros(df) == SelectSeq(df, IsJuros)
Originais(df) == LET Original(r) == ~IsJuros(r) IN SelectSeq(df, Original)
\* The records with a late fee greater than zero (an empty cell is none)
ComMora(df) ==
    LET Devida(r) == r.Vlr_Mora # CELULA_VAZIA /\ r.Vlr_Mora > 0
    IN  SelectSeq(Originais(df), Devida)
\* A processing of the upload u has stored a dataset
Stored(u) ==
    /\ processamentos' = Append(processamentos, u)
    /\ df_francesinhas_final' # df_francesinhas_final
\* The records the interest rows of that processing are derived from
Records(u) == FilterValidRecords(DadosFrancesinhas(u))

\* C15: a processing derives one interest row for each record whose late fee
\* is greater than zero and none for a record whose late fee is zero, so
\* that there are as many interest rows as records with a late fee
C15_OneInterestRowPerLateFee ==
    [][ \A u \in Uploads :
          Stored(u) =>
            LET out == df_francesinhas_final'
            IN  /\ Len(Juros(out)) = Len(ComMora(Records(u)))
                /\ Len(out) = Len(Records(u)) + Len(ComMora(Records(u)))
                /\ linhas_mora_count' = Len(ComMora(Records(u)))
                /\ \A k \in 1..Len(Juros(out)) :
                      /\ Juros(out)[k].Sacado = ComMora(Records(u))[k].Sacado
                      /\ Juros(out)[k].Valor_RS = ComMora(Records(u))[k].Vlr_Mora ]_vars
\* The files of a processing held records with a late fee, a record with
\* none and a record with an empty late fee, and it derived the interest rows
C15_Witness ==
    /\ processamentos # <<>>
    /\ Len(Juros(df_francesinhas_final)) = 2
    /\ linhas_mora_count = 2
    /\ \E k \in 1..Len(df_francesinhas_final) :
          df_francesinhas_final[k].Vlr_Mora = CELULA_VAZIA
    /\ \E k \in 1..Len(df_francesinhas_final) :
          ~IsJuros(df_francesinhas_final[k]) /\ df_francesinhas_final[k].Vlr_Mora = 0

\* C16: whatever files have been processed and processed again, the stored
\* dataset holds one interest row per stored record with a late fee, each
\* with that late fee as its amount, and so none derived from an interest row
C16_NoCascadingInterestRows ==
    LET df == df_francesinhas_final
    IN  /\ Len(Juros(df)) = Len(ComMora(df))
        /\ \A k \in 1..Len(Juros(df)) :
              /\ Juros(df)[k].Sacado = ComMora(df)[k].Sacado
              /\ Juros(df)[k].Valor_RS = ComMora(df)[k].Vlr_Mora
              /\ Juros(df)[k].Valor_RS > 0
\* The same files, with a record that has a late fee, have been processed
\* twice
C16_Witness ==
    /\ Len(processamentos) = 2
    /\ processamentos[1] = processamentos[2]
    /\ Len(Juros(df_francesinhas_final)) = 1
    /\ Len(Originais(df_francesinhas_final)) = 2

\* The fields of a Francesinha row an interest row takes from its record
SameIdentity(j, r) ==
    /\ j.Sacado = r.Sacado
    /\ j.Nosso_Numero = r.Nosso_Numero /\ j.Seu_Numero = r.Seu_Numero
    /\ j.Dt_Previsao_Credito = r.Dt_Previsao_Credito
    /\ j.Vencimento = r.Vencimento /\ j.Dt_Limite_Pgto = r.Dt_Limite_Pgto
    /\ j.Dt_Liquid = r.Dt_Liquid
Promoted(j, r) ==
    /\ j.Valor_RS = r.Vlr_Mora
    /\ j.Vlr_Mora = 0 /\ j.Vlr_Desc = 0 /\ j.Vlr_Outros_Acresc = 0
    /\ j.Arquivo_Origem = JUROS_DE_MORA

\* C17: an interest row has the late fee of its record as gross amount, zero
\* as late fee, discount and other additions, and 'Juros de Mora' as source;
\* payer, reference numbers, dates and charged amount are those of the
\* record, and the record is stored as it was read
C17_InterestRowAsStated ==
    [][ \A u \in Uploads :
          Stored(u) =>
            LET out == df_francesinhas_final'
            IN  /\ SubSeq(out, 1, Len(Records(u))) = Records(u)
                /\ \A k \in 1..Len(Juros(out)) :
                      /\ Promoted(Juros(out)[k], ComMora(Records(u))[k])
                      /\ SameIdentity(Juros(out)[k], ComMora(Records(u))[k])
                      /\ Juros(out)[k].Vlr_Cobrado = ComMora(Records(u))[k].Vlr_Cobrado ]_vars

\* C17 amended: as C17, but the charged amount of the interest row is the
\* late fee of its record, as its gross amount is
C17_InterestRowChargesLateFee ==
    [][ \A u \in Uploads :
          Stored(u) =>
            LET out == df_francesinhas_final'
            IN  /\ SubSeq(out, 1, Len(Records(u))) = Records(u)
                /\ \A k \in 1..Len(Juros(out)) :
                      /\ Promoted(Juros(out)[k], ComMora(Records(u))[k])
                      /\ SameIdentity(Juros(out)[k], ComMora(Records(u))[k])
                      /\ Juros(out)[k].Vlr_Cobrado = ComMora(Records(u))[k].Vlr_Mora ]_vars
\* An interest row has been derived from a record with a discount, whose
\* charged amount is not its late fee
C17_Witness ==
    /\ processamentos # <<>>
    /\ \E k \in 1..Len(Juros(df_francesinhas_final)) :
          LET j == Juros(df_francesinhas_final)[k]
              r == ComMora(df_francesinhas_final)[k]
          IN  /\ r.Vlr_Desc > 0 /\ r.Vlr_Cobrado # r.Vlr_Mora
              /\ j.Vlr_Cobrado = r.Vlr_Mora /\ j.Vlr_Desc = 0
              /\ SameIdentity(j, r)

-----------------------------------------------------------------------------
(* Properties of the save, under SpecSave                                  *)

\* A save has just ended in the failure of one of its statements
SaveFailed ==
    /\ sRes' # sRes
    /\ sRes'.passo \notin {"", "nenhuma"}

SaveCommitted ==
    /\ db'.conciliacoes = db.conciliacoes + 1
    /\ sRes'.passo = "nenhuma"
\* Stored entries of the company have an origin file of the dataset, so that
\* the user is asked to confirm the overwrite
OverwriteRequested == VerificarConciliacaoExistente(db, sEmpresa, sDf) # {}
OrigensDe(df) == {df[i].origem : i \in 1..Len(df)}
InBatch(l) == l.empresa_id = sEmpresa /\ l.origem \in OrigensDe(sDf)

\* C21: after a committed save of a dataset whose overwrite was requested,
\* the stored entries of the company with an origin file of the dataset are
\* the entries of the dataset, and all other stored entries are as before
C21_OverwriteReplacesByOrigin ==
    [][ (SaveCommitted /\ OverwriteRequested) =>
          /\ {l \in db'.lancamentos : InBatch(l)} =
                {LancamentoDe(sDf[i], i, db'.conciliacoes, sEmpresa) : i \in 1..Len(sDf)}
          /\ {l \in db'.lancamentos : ~InBatch(l)} =
                {l \in db.lancamentos : ~InBatch(l)} ]_vars

\* C22: a save whose overwrite was not requested keeps every stored entry
\* as it is, and whatever a save does, an entry that is stored after it and
\* was not before is an entry of the reconciliation just created
C22_StoredEntriesAreTerminal ==
    [][ /\ ~OverwriteRequested => db.lancamentos \subseteq db'.lancamentos
        /\ \A l \in db'.lancamentos \ db.lancamentos :
              /\ SaveCommitted
              /\ l.conciliacao_id = db'.conciliacoes ]_vars
\* A save without overwrite was committed on tables that held entries of an
\* earlier reconciliation, which are still there
C22_Witness ==
    /\ sRes.passo = "nenhuma"
    /\ db.conciliacoes = 2
    /\ \E l \in db.lancamentos : l.conciliacao_id = 1 /\ l.origem \in OrigensDe(sDf)
    /\ \A l \in db.lancamentos : l.conciliacao_id = 1 => l.empresa_id # sEmpresa
    /\ \E l \in db.lancamentos : l.conciliacao_id = 2 /\ l.empresa_id = sEmpresa

-----------------------------------------------------------------------------
(* Properties of the entity classifier, under SpecClassify                 *)

\* C23: for every name of the list, what classify_batch returned for it is
\* what classify_entity returns for that name alone
C23_BatchEqualsIndividual ==
    (cBatch.done /\ cEntity # NoClassification /\ cEntity.name \in Range(cNames)) =>
        /\ cEntity.name \in DOMAIN cBatch.classifications
        /\ cBatch.classifications[cEntity.name] = cEntity.res

\* C24: classify_entity returns 'Indefinido' for the empty name only, with
\* the model loaded or not
C24_UnknownOnlyForEmptyName ==
    (cEntity # NoClassification /\ cEntity.res = INDEFINIDO) => cEntity.name = <<>>

-----------------------------------------------------------------------------
(* Credit and history of a row with a tax id, under SpecCascade            *)

MaskedTaxId(payee) == ReSearch(RE_MASKED_TAX_ID, payee)
FormattedTaxId(payee) == ReSearch(RE_FORMATTED_TAX_ID, payee)

\* C28: a CREDIT row whose memo holds neither 'CR COMPRAS' nor 'TARIFA ENVIO
\* PIX' and whose payee holds a masked or a formatted tax id has history
\* '78', and a CREDIT row without history has no credit either
C28_CreditAndHistoryAgree ==
    (phase \in {"done", "recased"} /\ TransactionType(row) = TIPO_CREDIT) =>
        /\ ( /\ ~Contains(Upper(row.memo), KW_CR_COMPRAS)
             /\ ~Contains(Upper(row.memo), KW_TARIFA_ENVIO_PIX)
             /\ (MaskedTaxId(row.payee) \/ FormattedTaxId(row.payee)) )
               => codes.history = "78"
        /\ codes.history = "" => codes.credit = ""

-----------------------------------------------------------------------------
(* The rule key of the entries of Francesinha rows, under SpecBuild        *)

\* C27: the rule key of the entry built from a Francesinha row or from its
\* interest row is 'C - ' and the payer name cut to 40 characters, whatever
\* the file of the row is called
C27_FrancesinhaKeyIsPayer ==
    (bPhase # "input" /\ ~bRes.raised) =>
        \A j \in 1..Len(bFran) :
            LET i == Len(bRes.df) - Len(bFran) + j
            IN  CreateRuleKey(bRes.df[i]) = PREFIX_C \o Prefix(bFran[j].Sacado, SACADO_MAX)


-----------------------------------------------------------------------------
(* The review of a built dataset                                           *)

StripPrefix(s, p) ==
    IF Len(s) >= Len(p) /\ SubSeq(s, 1, Len(p)) = p
      THEN SubSeq(s, Len(p) + 1, Len(s)) ELSE s
\* The payer name of an entry: the first segment of the complement without
\* the prefix 'C - ', trimmed, cut at 40 characters, in upper case
DerivedPayerName(e) ==
    Upper(Prefix(Strip(StripPrefix(SplitPipe(e.complemento)[1], PREFIX_C)), 40))
AllowNames(lista) == {Upper(Prefix(Strip(lista[k]), 40)) : k \in 1..Len(lista)}
OriginIndicatesFrancesinha(e) == Contains(Lower(e.origem), FRANCESINHA)
Overridden(e, lista) ==
    IF OriginIndicatesFrancesinha(e)
      THEN [e EXCEPT !.historico = "78",
                     !.credito = IF DerivedPayerName(e) \in AllowNames(lista)
                                   THEN "13709" ELSE "10550"]
      ELSE e

\* C25: after the list of PJ clients is applied, every entry whose origin
\* holds 'francesinha' has history '78' and credit '13709' if its payer name
\* is a name of the list and '10550' if not, and nothing else has changed
C25_OverrideByAllowList ==
    [][ rOp'.op = "lista" =>
          /\ Len(rDf') = Len(rDf)
          /\ \A i \in 1..Len(rDf) : rDf'[i] = Overridden(rDf[i], rLista') ]_vars

SameFixedFields(a, b) ==
    /\ a.data = b.data /\ a.valor = b.valor
    /\ a.complemento = b.complemento /\ a.origem = b.origem

\* C26: no action of the operator (a cell of the data editor, a batch edit
\* of the selected rows) changes the date, the amount, the complement or the
\* origin of an entry, or the number of entries
C26_ReviewChangesOnlyAccounts ==
    [][ /\ Len(rDf') = Len(rDf)
        /\ \A i \in 1..Len(rDf) : SameFixedFields(rDf'[i], rDf[i]) ]_vars

-----------------------------------------------------------------------------
(* The confirmation of an overwrite                                        *)

ApagadasOfx == transacoes_ofx \ transacoes_ofx'

\* C29: stored rows of a file are deleted only by a save of the loaded
\* dataset that holds the file, after the user confirmed the overwrite for
\* that very dataset
C29_DeleteOnlyAfterConfirmation ==
    [][ ApagadasOfx # {} =>
          /\ kOp'.op = "salvar"
          /\ kConfirmado = df_extratos_final
          /\ \A r \in ApagadasOfx : r.arquivo_origem \in df_extratos_final ]_vars

-----------------------------------------------------------------------------
(* The lock of the editor                                                  *)

\* C30: while the editor is locked no action changes the reconciliation
\* dataset of the session: no entry changes and the dataset is not replaced
C30_LockedDatasetIsFrozen ==
    [][ editor_locked => lDf' = lDf ]_vars

====
